---- MODULE Spec2Model ----
(***************************************************************************)
(* A model of knadh/stuffbin: the 24-byte trailing identifier, the         *)
(* stuff / restuff / unstuff operations on binaries, the path resolver     *)
(* and the in-memory FileSystem.                                           *)
(*                                                                         *)
(* Strings are sequences of one-character strings, files are sequences of  *)
(* bytes (0..255), and a uint64 is kept at full width as four 16-bit       *)
(* limbs, most significant first.                                          *)
(*                                                                         *)
(* A value that is used more than once is bound with The({e : x \in {v}}) *)
(* rather than with LET, so that it is computed once.                      *)
(***************************************************************************)
EXTENDS Integers, Sequences, FiniteSets, TLC

VARIABLES
    disk,    \* the binaries on disk: name -> [ex, b]
    origin,  \* history: the size of the never-stuffed binary a file descends from, or -1
    steps,   \* the number of mutating calls made so far
    ret,     \* the last call: its arguments, what it returned, what it saw
    idIn,    \* the ID under test of the codec specification
    fs       \* the FileSystem under test of the FileSystem specification

vars == <<disk, origin, steps, ret, idIn, fs>>

-----------------------------------------------------------------------------
(* Generic helpers on sequences.                                           *)

\* The element of a one-element set.
The(S) == CHOOSE v \in S : TRUE

Max(a, b) == IF a >= b THEN a ELSE b

Min(a, b) == IF a <= b THEN a ELSE b

\* s without its first n elements.
Drop(s, n) == SubSeq(s, n + 1, Len(s))

HasPrefix(s, p) == Len(p) <= Len(s) /\ SubSeq(s, 1, Len(p)) = p

RECURSIVE ConcatFrom(_, _)
ConcatFrom(ss, i) == IF i > Len(ss) THEN <<>> ELSE ss[i] \o ConcatFrom(ss, i + 1)

Concat(ss0) == The({ConcatFrom(ss, 1) : ss \in {ss0}})

Zeros(n) == [i \in 1..n |-> 0]

-----------------------------------------------------------------------------
(* uint64 / int64 values.                                                  *)

Limb == 256 * 256

\* uint64(n) for a file size n.
U64(n) == <<0, 0, n \div Limb, n % Limb>>

U64Zero == <<0, 0, 0, 0>>

\* int64(u) is negative: the top bit is set.
IsNeg64(u) == u[1] >= Limb \div 2

\* int64(u) is a size the model can hold as a number.
Fits(u) == u[1] = 0 /\ u[2] = 0 /\ u[3] < Limb \div 2

\* int64(u), for Fits(u).
I64(u) == u[3] * Limb + u[4]

\* PutUint64 with the bytes in little-endian order.
PutUint64LittleEndian(u) ==
    <<u[4] % 256, u[4] \div 256, u[3] % 256, u[3] \div 256,
      u[2] % 256, u[2] \div 256, u[1] % 256, u[1] \div 256>>

\* binary.BigEndian.PutUint64
PutUint64(u) ==
    <<u[1] \div 256, u[1] % 256, u[2] \div 256, u[2] % 256,
      u[3] \div 256, u[3] % 256, u[4] \div 256, u[4] % 256>>

\* binary.BigEndian.Uint64
Uint64(b) ==
    <<b[1] * 256 + b[2], b[3] * 256 + b[4], b[5] * 256 + b[6], b[7] * 256 + b[8]>>

-----------------------------------------------------------------------------
(* The identifier (stuff.go).                                              *)

lenID == 24

\* 's','t','u','f','f','b','i','n'
buildName == <<115, 116, 117, 102, 102, 98, 105, 110>>

makeID(name, binLen, zipLen) == [Name |-> name, BinSize |-> binLen, ZipSize |-> zipLen]

ZeroID == makeID(Zeros(8), U64Zero, U64Zero)

makeIDBytes(id) == id.Name \o PutUint64(id.BinSize) \o PutUint64(id.ZipSize)

-----------------------------------------------------------------------------
(* Strings and paths (path/filepath on a '/'-separated host, strings).     *)

\* The byte of each character that occurs in a path or a text of the model.
Ord(c) ==
    CASE c = "/" -> 47 [] c = "." -> 46 [] c = ":" -> 58 [] c = "\\" -> 92
      [] c = "a" -> 97 [] c = "b" -> 98 [] c = "d" -> 100 [] c = "h" -> 104
      [] c = "n" -> 110 [] c = "r" -> 114 [] c = "s" -> 115 [] c = "v" -> 118
      [] c = "w" -> 119 [] c = "x" -> 120 [] c = "*" -> 42 [] c = "?" -> 63
      [] c = "[" -> 91 [] c = "]" -> 93 [] c = "-" -> 45 [] c = "^" -> 94
      [] c = "{" -> 123

Chars ==
    {"/", ".", ":", "\\", "a", "b", "d", "h", "n", "r", "s", "v", "w", "x",
     "*", "?", "[", "]", "-", "^"}

CharBytes == {Ord(c) : c \in Chars}

Chr(n) == CHOOSE c \in Chars : Ord(c) = n

\* []byte(s) and string(b)
Bytes(s0) == The({[i \in 1..Len(s) |-> Ord(s[i])] : s \in {s0}})

Str(b0) == The({[i \in 1..Len(b) |-> Chr(b[i])] : b \in {b0}})

\* strings.Split(s, sep) for a one-character sep: the pieces between the
\* positions of sep.
SplitAt(s, cuts) == [k \in 1..Len(cuts) - 1 |-> SubSeq(s, cuts[k] + 1, cuts[k + 1] - 1)]

Split(s0, sep) ==
    The({The({SplitAt(s, cuts) :
                cuts \in {<<0>> \o SelectSeq([i \in 1..Len(s) |-> i], LAMBDA i : s[i] = sep)
                               \o <<Len(s) + 1>>}}) :
         s \in {s0}})

\* strings.Join(elems, "/")
RECURSIVE JoinSlashFrom(_, _)
JoinSlashFrom(elems, i) ==
    IF i > Len(elems) THEN <<>>
    ELSE IF i = Len(elems) THEN elems[i]
    ELSE elems[i] \o <<"/">> \o JoinSlashFrom(elems, i + 1)

JoinSlash(elems0) == The({JoinSlashFrom(elems, 1) : elems \in {elems0}})

\* strings.TrimPrefix
TrimPrefix(s0, p0) ==
    The({IF HasPrefix(s, p) THEN Drop(s, Len(p)) ELSE s : s \in {s0}, p \in {p0}})

\* strings.Replace(s, `\`, "/", -1)
ReplaceBackslash(s0) ==
    The({[i \in 1..Len(s) |-> IF s[i] = "\\" THEN "/" ELSE s[i]] : s \in {s0}})

Rooted(p) == p # <<>> /\ p[1] = "/"

Dot == <<".">>

DotDot == <<".", ".">>

\* One component of filepath.Clean: empty and "." components are dropped,
\* ".." removes the component before it, is dropped at the root and is
\* kept at the start of a relative path.
CleanPush(out, c, rooted) ==
    IF c = <<>> \/ c = Dot THEN out
    ELSE IF c = DotDot
         THEN IF out # <<>> /\ out[Len(out)] # DotDot THEN SubSeq(out, 1, Len(out) - 1)
              ELSE IF rooted THEN out
              ELSE Append(out, c)
    ELSE Append(out, c)

RECURSIVE CleanStack(_, _, _, _)
CleanStack(segs, rooted, i, out) ==
    IF i > Len(segs) THEN out
    ELSE The({CleanStack(segs, rooted, i + 1, o) : o \in {CleanPush(out, segs[i], rooted)}})

CleanBody(p) == JoinSlash(The({CleanStack(segs, Rooted(p), 1, <<>>) : segs \in {Split(p, "/")}}))

\* filepath.Clean
Clean(p0) ==
    The({IF p = <<>> THEN Dot
         ELSE The({IF Rooted(p) THEN <<"/">> \o body
                   ELSE IF body = <<>> THEN Dot ELSE body :
                   body \in {CleanBody(p)}}) :
         p \in {p0}})

\* filepath.Join: empty elements are ignored, the rest is joined and cleaned.
Join(elems) ==
    The({IF ne = <<>> THEN <<>> ELSE Clean(JoinSlash(ne)) :
         ne \in {SelectSeq(elems, LAMBDA e : e # <<>>)}})

\* cleanPath (fs.go); filepath.VolumeName is empty on this host.
cleanPath(rootPath, p) ==
    ReplaceBackslash(Join(<<IF rootPath = <<>> THEN <<"/">> ELSE rootPath,
                            Clean(<<"/">> \o p)>>))

-----------------------------------------------------------------------------
(* The host file tree the path resolver walks.  The working directory is   *)
(* /w; HostFiles lists every regular file in filepath.Walk's lexical       *)
(* order.                                                                  *)

Cwd == <<"/", "w">>

HostFiles ==
    << [path |-> <<"/", "w", "/", ".", "h">>, data |-> <<16>>],
       [path |-> <<"/", "w", "/", "b">>, data |-> <<11>>],
       [path |-> <<"/", "w", "/", "d", "/", ".", "h">>, data |-> <<15>>],
       [path |-> <<"/", "w", "/", "d", "/", "a">>, data |-> <<12, 13>>],
       [path |-> <<"/", "w", "/", "d", "/", "s", "/", "x">>, data |-> <<14>>] >>

HostIdx == 1..Len(HostFiles)

\* The absolute path the host resolves p to.
Abs(p) == IF Rooted(p) THEN Clean(p) ELSE Clean(Cwd \o <<"/">> \o p)

DirPrefix(abs) == IF abs = <<"/">> THEN abs ELSE abs \o <<"/">>

\* os.Stat(p): "file", "dir", or "notexist".
HostStat(p) ==
    The({IF \E i \in HostIdx : HostFiles[i].path = abs THEN "file"
         ELSE IF \E i \in HostIdx : HasPrefix(HostFiles[i].path, DirPrefix(abs)) THEN "dir"
         ELSE "notexist" :
         abs \in {Abs(p)}})

\* The bytes os.Open(p) + io.Copy read.
HostData(p) ==
    The({HostFiles[CHOOSE i \in HostIdx : HostFiles[i].path = abs].data : abs \in {Abs(p)}})

\* filepath.Walk(srcPath): the regular files below srcPath, each as
\* filepath.Join(srcPath, <path relative to srcPath>).
Walk(srcPath) ==
    The({The({[k \in 1..Len(under) |-> Join(<<srcPath, Drop(under[k].path, Len(pre))>>)] :
              under \in {SelectSeq(HostFiles, LAMBDA f : HasPrefix(f.path, pre))}}) :
         pre \in {DirPrefix(Abs(srcPath))}})

-----------------------------------------------------------------------------
(* walkPaths (stuff.go).  The result is the sequence of callbacks          *)
(* (src, target) made before the first error, and that error ("nil" when   *)
(* every spec resolved).                                                   *)

\* The target of a file p found under the directory srcPath: stuff.go
\* lines 246-252.
dirTarget(rootPath, srcPath, targetPath, p) ==
    Join(<<rootPath,
           IF targetPath # <<>> THEN Join(<<targetPath, TrimPrefix(p, srcPath)>>) ELSE p>>)

\* The callbacks of a directory spec.
walkDir(rootPath, srcPath, targetPath) ==
    The({[k \in 1..Len(walked) |->
             [src |-> walked[k],
              target |-> dirTarget(rootPath, srcPath, targetPath, walked[k])]] :
         walked \in {Walk(srcPath)}})

\* walkChunks with the alias of a single file joined to rootPath.
walkChunksRooted(rootPath, nchunks, srcPath, targetPath, stat) ==
    IF nchunks > 2 THEN [err |-> "invalid", items |-> <<>>]
    ELSE IF stat = "notexist" THEN [err |-> "notexist", items |-> <<>>]
    ELSE IF stat = "dir"
         THEN [err |-> "nil", items |-> walkDir(rootPath, srcPath, targetPath)]
    ELSE [err |-> "nil",
          items |-> <<[src |-> srcPath,
                       target |-> IF targetPath = <<>>
                                  THEN cleanPath(rootPath, srcPath)
                                  ELSE cleanPath(rootPath, targetPath)]>>]

\* One spec of the list, split at ':' and with its source cleaned and
\* stat'ed: stuff.go lines 224-266.
walkChunks(rootPath, nchunks, srcPath, targetPath, stat) ==
    IF nchunks > 2 THEN [err |-> "invalid", items |-> <<>>]
    ELSE IF stat = "notexist" THEN [err |-> "notexist", items |-> <<>>]
    ELSE IF stat = "dir"
         THEN [err |-> "nil", items |-> walkDir(rootPath, srcPath, targetPath)]
    ELSE [err |-> "nil",
          items |-> <<[src |-> srcPath,
                       target |-> IF targetPath = <<>>
                                  THEN cleanPath(rootPath, srcPath)
                                  ELSE targetPath]>>]

\* One spec of the list: stuff.go lines 218-266.
walkOne(rootPath, fp) ==
    The({The({walkChunks(rootPath, Len(chunks), srcPath,
                         IF Len(chunks) = 2 THEN cleanPath(<<"/">>, chunks[2]) ELSE <<>>,
                         HostStat(srcPath)) :
              srcPath \in {Clean(chunks[1])}}) :
         chunks \in {Split(fp, ":")}})

\* walkFrom going on to the next spec after a spec that failed.
RECURSIVE walkFromSkipping(_, _, _)
walkFromSkipping(rootPath, paths, i) ==
    IF i > Len(paths) THEN [err |-> "nil", items |-> <<>>]
    ELSE The({The({[err |-> IF one.err # "nil" THEN one.err ELSE rest.err,
                    items |-> one.items \o rest.items] :
                   rest \in {walkFromSkipping(rootPath, paths, i + 1)}}) :
              one \in {walkOne(rootPath, paths[i])}})

\* The loop over the specs from the i-th on: the first error ends it.
RECURSIVE walkFrom(_, _, _)
walkFrom(rootPath, paths, i) ==
    IF i > Len(paths) THEN [err |-> "nil", items |-> <<>>]
    ELSE The({IF one.err # "nil" THEN one
              ELSE The({[err |-> rest.err, items |-> one.items \o rest.items] :
                        rest \in {walkFrom(rootPath, paths, i + 1)}}) :
              one \in {walkOne(rootPath, paths[i])}})

walkPaths(rootPath, paths) == walkFrom(rootPath, paths, 1)

\* walkPaths with a callback that returns an error at its failAt-th call:
\* the error is returned by filepath.Walk or by the loop as it is, after
\* that call.
walkPathsFailing(rootPath, paths, failAt) ==
    The({IF Len(w.items) >= failAt
         THEN [err |-> "callback", items |-> SubSeq(w.items, 1, failAt)]
         ELSE w :
         w \in {walkPaths(rootPath, paths)}})

-----------------------------------------------------------------------------
(* The archive codec (archive/zip), as a container: one record per entry   *)
(* (name length, name, data length, data) followed by an end record that   *)
(* counts the entries.  A reader accepts exactly the byte strings a writer *)
(* can produce.                                                            *)

ZipMagic == <<80, 75>>

ZipEndLen == Len(ZipMagic) + 1

ZipEntryBytes(e) == <<Len(e.name)>> \o Bytes(e.name) \o <<Len(e.data)>> \o e.data

\* zip.Writer: CreateHeader + io.Copy per entry, then Close.
ZipWrite(entries0) ==
    The({Concat([i \in 1..Len(entries) |-> ZipEntryBytes(entries[i])])
            \o ZipMagic \o <<Len(entries)>> :
         entries \in {entries0}})

ZipBad == [ok |-> FALSE, entries |-> <<>>]

\* The n entries that start at position pos of b and end at position last;
\* ok is FALSE when they do not fit exactly.
RECURSIVE ZipReadEntries(_, _, _, _)
ZipReadEntries(b, pos, last, n) ==
    IF n = 0 THEN [ok |-> pos = last + 1, entries |-> <<>>]
    ELSE IF pos > last THEN ZipBad
    ELSE The({
        IF dpos > last \/ \E i \in pos + 1 .. dpos - 1 : b[i] \notin CharBytes THEN ZipBad
        ELSE The({
            IF next > last + 1 THEN ZipBad
            ELSE The({[ok |-> rest.ok,
                       entries |-> <<[name |-> Str(SubSeq(b, pos + 1, dpos - 1)),
                                      data |-> SubSeq(b, dpos + 1, next - 1)]>>
                                   \o rest.entries] :
                      rest \in {ZipReadEntries(b, next, last, n - 1)}}) :
            next \in {dpos + 1 + b[dpos]}}) :
        dpos \in {pos + 1 + b[pos]}})

\* zip.NewReader: the end record is looked up at the end of the bytes.
ZipRead(b0) ==
    The({IF Len(b) < ZipEndLen \/ SubSeq(b, Len(b) - 2, Len(b) - 1) # ZipMagic THEN ZipBad
         ELSE ZipReadEntries(b, 1, Len(b) - ZipEndLen, b[Len(b)]) :
         b \in {b0}})

\* zipFiles / zipFile (stuff.go): every resolved file becomes an entry named
\* by its target path; an error of the resolver leaves no archive.
zipFiles(rootPath, paths) ==
    The({IF w.err # "nil" THEN [err |-> w.err, z |-> <<>>]
         ELSE [err |-> "nil",
               z |-> ZipWrite([i \in 1..Len(w.items) |->
                         [name |-> w.items[i].target,
                          data |-> HostData(w.items[i].src)]])] :
         w \in {walkPaths(rootPath, paths)}})

-----------------------------------------------------------------------------
(* File and memFS (fs.go).  A FileSystem value is its files map, keyed by  *)
(* path, and its size counter.                                             *)

\* NewFile: info.Size() is the length of the bytes read.
NewFile(path, b) == [path |-> path, size |-> Len(b), b |-> b]

EmptyFiles == [k \in {} |-> NewFile(<<>>, <<>>)]

\* NewFS
NewFS == [files |-> EmptyFiles, size |-> 0]

\* m[k] = v
MapPut(m0, k0, v0) ==
    The({[x \in DOMAIN m \cup {k} |-> IF x = k THEN v ELSE m[x]] :
         m \in {m0}, k \in {k0}, v \in {v0}})

\* delete(m, k)
MapDel(m0, k0) == The({[x \in DOMAIN m \ {k} |-> m[x]] : m \in {m0}, k \in {k0}})

\* memFS.Add: the existence check reads the map under f.Path() as given,
\* the insert goes under the cleaned path.
Add(m, f) ==
    IF f.path \in DOMAIN m.files
    THEN [err |-> "exists", fs |-> m]
    ELSE [err |-> "nil",
          fs |-> [files |-> MapPut(m.files, cleanPath(<<>>, f.path), f),
                  size |-> m.size + f.size]]

\* memFS.List, as a set: the order of a map's keys is not significant.
List(m) == DOMAIN m.files

\* memFS.Len
FSLen(m) == Cardinality(DOMAIN m.files)

\* memFS.Size
Size(m) == m.size

\* Get with the lookup under the path as it is given.
GetUncleaned(m, fPath) ==
    IF fPath \in DOMAIN m.files
    THEN [err |-> "nil", f |-> NewFile(m.files[fPath].path, m.files[fPath].b)]
    ELSE [err |-> "notexist", f |-> NewFile(<<>>, <<>>)]

\* memFS.Get
Get(m, fPath) ==
    The({IF k \in DOMAIN m.files
         THEN [err |-> "nil", f |-> NewFile(m.files[k].path, m.files[k].b)]
         ELSE [err |-> "notexist", f |-> NewFile(<<>>, <<>>)] :
         k \in {cleanPath(<<"/">>, fPath)}})

\* File.Path: the path the File was made with.
Path(f) == f.path

\* File.ReadBytes
ReadBytes(f) == f.b

\* memFS.Read: the bytes of Get's File, nil on Get's error.
Read(m, fPath) ==
    The({IF g.err # "nil" THEN [err |-> g.err, b |-> <<>>, nil |-> TRUE]
         ELSE [err |-> "nil", b |-> ReadBytes(g.f), nil |-> FALSE] :
         g \in {Get(m, fPath)}})

\* memFS.Open
Open(m, path) == Get(m, path)

\* Delete with the lookup under the path as it is given.
DeleteUncleaned(m, fPath) ==
    IF fPath \notin DOMAIN m.files THEN [err |-> "notexist", fs |-> m]
    ELSE [err |-> "nil", fs |-> [files |-> MapDel(m.files, fPath), size |-> m.size]]

\* memFS.Delete: the entry is removed from the map; size is not assigned.
Delete(m, fPath) ==
    The({IF k \notin DOMAIN m.files THEN [err |-> "notexist", fs |-> m]
         ELSE [err |-> "nil", fs |-> [files |-> MapDel(m.files, k), size |-> m.size]] :
         k \in {cleanPath(<<"/">>, fPath)}})

\* One round of MergeFS's loop on dest for the File f that src.Get(path)
\* returned: dest.Get(path) returning a File makes dest.Delete(path) run,
\* and the error of dest.Add(f) is dropped.
mergeOne(dest, path, f) ==
    The({IF d.err # "nil" THEN d ELSE [err |-> "nil", fs |-> Add(d.fs, f).fs] :
         d \in {IF Get(dest, path).err = "nil" THEN Delete(dest, path)
                ELSE [err |-> "nil", fs |-> dest]}})

\* MergeFS from the i-th path of order, the order in which src.List()
\* returned the paths of src.
RECURSIVE mergeFrom(_, _, _, _)
mergeFrom(dest, src, order, i) ==
    IF i > Len(order) THEN [err |-> "nil", fs |-> dest]
    ELSE The({IF g.err # "nil" THEN [err |-> g.err, fs |-> dest]
              ELSE The({IF one.err # "nil" THEN one
                        ELSE mergeFrom(one.fs, src, order, i + 1) :
                        one \in {mergeOne(dest, order[i], g.f)}}) :
              g \in {Get(src, order[i])}})

\* MergeFS
MergeFS(dest, src, order) == mergeFrom(dest, src, order, 1)

\* memFS.Merge
Merge(m, src, order) == MergeFS(m, src, order)

\* The callback of NewLocalFS on each item from the i-th on: the file is
\* read and added under its target; the first error ends the walk.
RECURSIVE addItems(_, _, _)
addItems(m, items, i) ==
    IF i > Len(items) THEN [err |-> "nil", fs |-> m, nil |-> FALSE]
    ELSE The({IF a.err # "nil" THEN [err |-> a.err, fs |-> NewFS, nil |-> TRUE]
              ELSE addItems(a.fs, items, i + 1) :
              a \in {Add(m, NewFile(items[i].target, HostData(items[i].src)))}})

\* NewLocalFS: an error of the resolver, coming after the callbacks made
\* before it, or of a callback gives a nil FileSystem.
NewLocalFS(rootPath, paths) ==
    The({The({IF a.err # "nil" THEN a
              ELSE IF w.err # "nil" THEN [err |-> w.err, fs |-> NewFS, nil |-> TRUE]
              ELSE a :
              a \in {addItems(NewFS, w.items, 1)}}) :
         w \in {walkPaths(rootPath, paths)}})

-----------------------------------------------------------------------------
(* filepath.Match on a '/'-separated host, and memFS.Glob (fs.go).         *)

BadPattern == "ErrBadPattern"

\* strings.Contains(s, "/")
ContainsSlash(s) == \E i \in DOMAIN s : s[i] = "/"

\* The length of the chunk that starts p: it ends before the first '*'
\* outside a character class; a backslash skips the character after it.
RECURSIVE scanEnd(_, _, _)
scanEnd(p, i, inrange) ==
    IF i > Len(p) THEN Len(p)
    ELSE IF p[i] = "\\" THEN scanEnd(p, IF i + 1 <= Len(p) THEN i + 2 ELSE i + 1, inrange)
    ELSE IF p[i] = "[" THEN scanEnd(p, i + 1, TRUE)
    ELSE IF p[i] = "]" THEN scanEnd(p, i + 1, FALSE)
    ELSE IF p[i] = "*" /\ ~inrange THEN i - 1
    ELSE scanEnd(p, i + 1, inrange)

\* The number of '*' that start pattern.
RECURSIVE leadingStars(_, _)
leadingStars(pattern, n) ==
    IF n < Len(pattern) /\ pattern[n + 1] = "*" THEN leadingStars(pattern, n + 1) ELSE n

\* scanChunk
scanChunk(pattern) ==
    The({The({The({[star |-> n > 0, chunk |-> SubSeq(p, 1, e), rest |-> Drop(p, e)] :
                   e \in {scanEnd(p, 1, FALSE)}}) :
              p \in {Drop(pattern, n)}}) :
         n \in {leadingStars(pattern, 0)}})

\* getEsc: one character of a class, possibly escaped; it may not be the
\* last character of the chunk.
getEsc(chunk) ==
    IF chunk = <<>> \/ chunk[1] \in {"-", "]"} THEN [err |-> BadPattern, r |-> 0, nchunk |-> <<>>]
    ELSE The({IF c = <<>> \/ Len(c) = 1 THEN [err |-> BadPattern, r |-> 0, nchunk |-> <<>>]
              ELSE [err |-> "nil", r |-> Ord(c[1]), nchunk |-> Drop(c, 1)] :
              c \in {IF chunk[1] = "\\" THEN Drop(chunk, 1) ELSE chunk}})

\* The ranges of a character class up to its ']', matched against r.
RECURSIVE classRanges(_, _, _, _)
classRanges(chunk, r, nrange, match) ==
    IF chunk # <<>> /\ chunk[1] = "]" /\ nrange > 0
    THEN [err |-> "nil", chunk |-> Drop(chunk, 1), match |-> match]
    ELSE The({
        IF lo.err # "nil" THEN [err |-> lo.err, chunk |-> <<>>, match |-> FALSE]
        ELSE IF lo.nchunk[1] = "-"
             THEN The({IF hi.err # "nil" THEN [err |-> hi.err, chunk |-> <<>>, match |-> FALSE]
                       ELSE classRanges(hi.nchunk, r, nrange + 1,
                                        match \/ (lo.r <= r /\ r <= hi.r)) :
                       hi \in {getEsc(Drop(lo.nchunk, 1))}})
        ELSE classRanges(lo.nchunk, r, nrange + 1, match \/ lo.r = r) :
        lo \in {getEsc(chunk)}})

ChunkBad == [err |-> BadPattern, ok |-> FALSE, rest |-> <<>>]

\* matchChunk: once the match has failed the rest of the chunk is still
\* checked for being well-formed.
RECURSIVE matchChunkFrom(_, _, _)
matchChunkFrom(chunk, s, failed0) ==
    IF chunk = <<>>
    THEN IF failed0 THEN [err |-> "nil", ok |-> FALSE, rest |-> <<>>]
         ELSE [err |-> "nil", ok |-> TRUE, rest |-> s]
    ELSE The({
        IF chunk[1] = "["
        THEN The({The({IF cr.err # "nil" THEN ChunkBad
                       ELSE matchChunkFrom(cr.chunk, IF failed THEN s ELSE Drop(s, 1),
                                           failed \/ cr.match = negated) :
                       cr \in {classRanges(IF negated THEN Drop(chunk, 2) ELSE Drop(chunk, 1),
                                           IF failed THEN 0 ELSE Ord(s[1]), 0, FALSE)}}) :
                  negated \in {Len(chunk) > 1 /\ chunk[2] = "^"}})
        ELSE IF chunk[1] = "?"
        THEN IF failed THEN matchChunkFrom(Drop(chunk, 1), s, TRUE)
             ELSE matchChunkFrom(Drop(chunk, 1), Drop(s, 1), s[1] = "/")
        ELSE The({IF c = <<>> THEN ChunkBad
                  ELSE IF failed THEN matchChunkFrom(Drop(c, 1), s, TRUE)
                  ELSE matchChunkFrom(Drop(c, 1), Drop(s, 1), c[1] # s[1]) :
                  c \in {IF chunk[1] = "\\" THEN Drop(chunk, 1) ELSE chunk}}) :
        failed \in {failed0 \/ s = <<>>}})

matchChunk(chunk, s) == matchChunkFrom(chunk, s, FALSE)

\* The check, made before Match returns false, that the rest of the
\* pattern is well-formed.
RECURSIVE matchRest(_)
matchRest(pattern) ==
    IF pattern = <<>> THEN [err |-> "nil", matched |-> FALSE]
    ELSE The({IF matchChunk(sc.chunk, <<>>).err # "nil"
              THEN [err |-> BadPattern, matched |-> FALSE]
              ELSE matchRest(sc.rest) :
              sc \in {scanChunk(pattern)}})

\* A '*' that ends the pattern matches everything.
trailingStarAny(name) == TRUE

\* A '*' that ends the pattern matches the rest of the name unless it has
\* a '/'.
trailingStar(name) == ~ContainsSlash(name)

RECURSIVE Match(_, _)
RECURSIVE matchSkip(_, _, _, _)

\* The loop of Match after a '*': the chunk is tried after skipping i+1
\* characters of name, none of them a '/'.
matchSkip(chunk, rest, name, i) ==
    IF ~(i < Len(name) /\ name[i + 1] # "/") THEN matchRest(rest)
    ELSE The({IF m.ok
              THEN IF rest = <<>> /\ m.rest # <<>> THEN matchSkip(chunk, rest, name, i + 1)
                   ELSE Match(rest, m.rest)
              ELSE IF m.err # "nil" THEN [err |-> m.err, matched |-> FALSE]
              ELSE matchSkip(chunk, rest, name, i + 1) :
              m \in {matchChunk(chunk, Drop(name, i + 1))}})

\* filepath.Match
Match(pattern, name) ==
    IF pattern = <<>> THEN [err |-> "nil", matched |-> name = <<>>]
    ELSE The({
        IF sc.star /\ sc.chunk = <<>> THEN [err |-> "nil", matched |-> trailingStar(name)]
        ELSE The({IF m.ok /\ (m.rest = <<>> \/ sc.rest # <<>>) THEN Match(sc.rest, m.rest)
                  ELSE IF m.err # "nil" THEN [err |-> m.err, matched |-> FALSE]
                  ELSE IF sc.star THEN matchSkip(sc.chunk, sc.rest, name, 0)
                  ELSE matchRest(sc.rest) :
                  m \in {matchChunk(sc.chunk, name)}}) :
        sc \in {scanChunk(pattern)}})

\* memFS.Glob from the i-th path of order, the order in which List()
\* returned the paths: the first error of Match ends it with a nil result.
RECURSIVE globFrom(_, _, _, _)
globFrom(pattern, order, i, out) ==
    IF i > Len(order) THEN [err |-> "nil", out |-> out, nil |-> out = <<>>]
    ELSE The({IF mt.err # "nil" THEN [err |-> mt.err, out |-> <<>>, nil |-> TRUE]
              ELSE globFrom(pattern, order, i + 1,
                            IF mt.matched THEN Append(out, order[i]) ELSE out) :
              mt \in {Match(pattern, order[i])}})

\* memFS.Glob
Glob(m, pattern, order) == globFrom(pattern, order, 1, <<>>)

-----------------------------------------------------------------------------
(* The template helpers (fs.go).  A template is the name it was made with  *)
(* and the texts parsed into it.                                           *)

\* The byte that opens an action of a template.
LeftBrace == Ord("{")

\* (*template.Template).Parse fails on a text with an action that is not
\* closed; of the texts of the model these are the ones with "{{".
ParseFails(b) == \E i \in 1..(Len(b) - 1) : b[i] = LeftBrace /\ b[i + 1] = LeftBrace

\* filepath.Base
Base(path) ==
    IF path = <<>> THEN <<".">>
    ELSE The({IF parts = <<>> THEN <<"/">> ELSE parts[Len(parts)] :
              parts \in {SelectSeq(Split(path, "/"), LAMBDA x : x # <<>>)}})

NoTemplate == [name |-> <<>>, texts |-> <<>>]

\* The loop of ParseTemplates from the i-th path on.
RECURSIVE parseFrom(_, _, _, _)
parseFrom(m, path, i, tpl) ==
    IF i > Len(path) THEN [err |-> "nil", tpl |-> tpl, nil |-> FALSE]
    ELSE The({IF f.err # "nil" THEN [err |-> "Errorf(read)", tpl |-> NoTemplate, nil |-> TRUE]
              ELSE IF ParseFails(f.b) THEN [err |-> "parse", tpl |-> NoTemplate, nil |-> TRUE]
              ELSE parseFrom(m, path, i + 1, [tpl EXCEPT !.texts = Append(@, f.b)]) :
              f \in {Read(m, path[i])}})

\* ParseTemplates: path[0] is read before the number of paths is checked.
ParseTemplates(m, path) ==
    IF Len(path) = 0 THEN [err |-> "panic", tpl |-> NoTemplate, nil |-> TRUE]
    ELSE parseFrom(m, path, 1, [name |-> Base(path[1]), texts |-> <<>>])

\* ParseTemplatesGlob
ParseTemplatesGlob(m, pattern, order) ==
    The({IF g.err # "nil" THEN [err |-> g.err, tpl |-> NoTemplate, nil |-> TRUE]
         ELSE IF Len(g.out) = 0 THEN [err |-> "Errorf(no files)", tpl |-> NoTemplate, nil |-> TRUE]
         ELSE ParseTemplates(m, g.out) :
         g \in {Glob(m, pattern, order)}})

-----------------------------------------------------------------------------
(* The binaries on disk and the operations on them (stuff.go, unstuff.go). *)

BinNames == {"bin", "out"}

NoFile == [ex |-> FALSE, b |-> <<>>]

FileOf(b) == [ex |-> TRUE, b |-> b]

\* A write of data at offset off of a file holding f: bytes outside the
\* written range stay, a gap is zero-filled.
WriteAt(f0, off, data0) ==
    The({[i \in 1..Max(Len(f), off + Len(data)) |->
             IF i > off /\ i <= off + Len(data) THEN data[i - off]
             ELSE IF i <= Len(f) THEN f[i] ELSE 0] :
         f \in {f0}, data \in {data0}})

\* (*os.File).Truncate(n), n >= 0: cut, or extended with zero bytes.
Truncate(f0, n) == The({[i \in 1..n |-> IF i <= Len(f) THEN f[i] ELSE 0] : f \in {f0}})

\* decodeID with the tag compared on its first seven bytes only.
decodeIDShortTag(buf) ==
    IF SubSeq(buf, 1, 7) # SubSeq(buildName, 1, 7) THEN [err |-> "ErrNoID", id |-> ZeroID]
    ELSE [err |-> "nil",
          id |-> [Name |-> SubSeq(buf, 1, 8),
                  BinSize |-> Uint64(SubSeq(buf, 9, 16)),
                  ZipSize |-> Uint64(SubSeq(buf, 17, 24))]]

\* The identifier in the last lenID bytes buf of a file: stuff.go lines 99-109.
decodeID(buf) ==
    IF SubSeq(buf, 1, 8) # buildName THEN [err |-> "ErrNoID", id |-> ZeroID]
    ELSE [err |-> "nil",
          id |-> [Name |-> SubSeq(buf, 1, 8),
                  BinSize |-> Uint64(SubSeq(buf, 9, 16)),
                  ZipSize |-> Uint64(SubSeq(buf, 17, 24))]]

\* GetFileID
GetFileID(d, fName) ==
    IF ~d[fName].ex THEN [err |-> "notexist", id |-> ZeroID]
    ELSE The({IF size - lenID < 0 THEN [err |-> "ErrNoID", id |-> ZeroID]
              ELSE The({decodeID(buf) : buf \in {SubSeq(d[fName].b, size - lenID + 1, size)}}) :
              size \in {Len(d[fName].b)}})

\* The branch of copyFile that decides the original size: the condition of
\* stuff.go line 201.
AlreadyStuffed(old) == old.BinSize # U64Zero

\* copyFile after io.Copy: d1 is the disk with in copied over the start of
\* out, old the identifier GetFileID(in) gave (the zero ID on an error).
copyTail(d1, inLen, out, old) ==
    IF AlreadyStuffed(old)
    THEN IF IsNeg64(old.BinSize) \/ ~Fits(old.BinSize)
         THEN [err |-> "io", d |-> d1, size |-> 0, off |-> 0]
         ELSE [err |-> "nil",
               d |-> [d1 EXCEPT ![out] = FileOf(Truncate(d1[out].b, I64(old.BinSize)))],
               size |-> I64(old.BinSize), off |-> I64(old.BinSize)]
    ELSE [err |-> "nil", d |-> d1, size |-> inLen, off |-> inLen]

\* copyFile: out is opened without truncation and in is copied over its
\* start; d is the disk left behind, off the offset of the returned handle.
copyFile(d, in, out) ==
    IF ~d[in].ex THEN [err |-> "notexist", d |-> d, size |-> 0, off |-> 0]
    ELSE The({copyTail(d1, Len(d[in].b), out, GetFileID(d1, in).id) :
              d1 \in {[d EXCEPT ![out] = FileOf(WriteAt(d[out].b, 0, d[in].b))]}})

\* Stuff after zipFiles and copyFile: the archive and the identifier are
\* written at the handle's offset.
stuffWrite(out, zf, cp) ==
    IF zf.err # "nil" THEN [err |-> zf.err, d |-> cp.d, orig |-> 0, zlen |-> 0, z |-> <<>>]
    ELSE IF cp.err # "nil" THEN [err |-> cp.err, d |-> cp.d, orig |-> 0, zlen |-> 0, z |-> <<>>]
    ELSE [err |-> "nil",
          d |-> [cp.d EXCEPT ![out] =
                    FileOf(WriteAt(cp.d[out].b, cp.off,
                                   zf.z \o makeIDBytes(makeID(buildName, U64(cp.size),
                                                              U64(Len(zf.z))))))],
          orig |-> cp.size, zlen |-> Len(zf.z), z |-> zf.z]

\* Stuff: a failure of zipFiles returns before the output is opened.
Stuff(d, in, out, rootPath, files) ==
    The({The({stuffWrite(out, zf, cp) :
              cp \in {IF zf.err # "nil" THEN [err |-> "nil", d |-> d, size |-> 0, off |-> 0]
                      ELSE copyFile(d, in, out)}}) :
         zf \in {zipFiles(rootPath, files)}})

\* getZipBytes: make([]byte, zipLen) panics on a negative length and on one
\* of 2^48 or more; ReadAt fails on a negative offset and on a short read
\* (a length from 2^31 to 2^48 is more than any file of the model holds).
getZipBytes(d, fName, offset, zipLen) ==
    IF ~d[fName].ex THEN [err |-> "notexist", b |-> <<>>, nil |-> TRUE]
    ELSE IF IsNeg64(zipLen) \/ zipLen[1] > 0 THEN [err |-> "panic", b |-> <<>>, nil |-> TRUE]
    ELSE IF IsNeg64(offset) \/ ~Fits(zipLen) THEN [err |-> "io", b |-> <<>>, nil |-> TRUE]
    ELSE IF I64(zipLen) = 0 THEN [err |-> "nil", b |-> <<>>, nil |-> FALSE]
    ELSE IF ~Fits(offset) \/ I64(offset) + I64(zipLen) > Len(d[fName].b)
         THEN [err |-> "io", b |-> <<>>, nil |-> TRUE]
    ELSE [err |-> "nil", nil |-> FALSE,
          b |-> SubSeq(d[fName].b, I64(offset) + 1, I64(offset) + I64(zipLen))]

\* GetStuff with the error of GetFileID wrapped in a new error value.
GetStuffWrapped(d, in) ==
    The({IF g.err # "nil" THEN [err |-> "wrapped", b |-> <<>>, nil |-> TRUE]
         ELSE getZipBytes(d, in, g.id.BinSize, g.id.ZipSize) :
         g \in {GetFileID(d, in)}})

\* GetStuff: an error of GetFileID or of getZipBytes is returned as it is,
\* with nil bytes.
GetStuff(d, in) ==
    The({IF g.err # "nil" THEN [err |-> g.err, b |-> <<>>, nil |-> TRUE]
         ELSE getZipBytes(d, in, g.id.BinSize, g.id.ZipSize) :
         g \in {GetFileID(d, in)}})

\* The loop of UnZip: every entry is added to the FileSystem built so far.
RECURSIVE AddEntries(_, _, _)
AddEntries(m, entries, i) ==
    IF i > Len(entries) THEN [err |-> "nil", fs |-> m, nil |-> FALSE]
    ELSE The({IF a.err # "nil" THEN [err |-> a.err, fs |-> NewFS, nil |-> TRUE]
              ELSE AddEntries(a.fs, entries, i + 1) :
              a \in {Add(m, NewFile(entries[i].name, entries[i].data))}})

\* UnZip
UnZip(b) ==
    The({IF ~r.ok THEN [err |-> "zip", fs |-> NewFS, nil |-> TRUE]
         ELSE AddEntries(NewFS, r.entries, 1) :
         r \in {ZipRead(b)}})

\* UnStuff: an error of GetStuff or of UnZip is returned as it is, with a
\* nil FileSystem.
UnStuff(d, path) ==
    The({IF g.err # "nil" THEN [err |-> g.err, fs |-> NewFS, nil |-> TRUE] ELSE UnZip(g.b) :
         g \in {GetStuff(d, path)}})

\* strip after GetFileID gave id: in is copied over the start of out, which
\* is opened without truncation, and out is cut to id.BinSize; an error of
\* Truncate ends the process in l.Fatalf.
stripWrite(d1, out, id) ==
    IF IsNeg64(id.BinSize) \/ ~Fits(id.BinSize) THEN [err |-> "fatal", d |-> d1]
    ELSE [err |-> "nil",
          d |-> [d1 EXCEPT ![out] = FileOf(Truncate(d1[out].b, I64(id.BinSize)))]]

\* strip (the command's main.go): an error of GetFileID is returned, inside
\* a new error that carries its text, before out is opened.
strip(d, in, out) ==
    The({IF g.err = "ErrNoID" THEN [err |-> "Errorf(ErrNoID)", d |-> d]
         ELSE IF g.err # "nil" THEN [err |-> "Errorf(read)", d |-> d]
         ELSE stripWrite([d EXCEPT ![out] = FileOf(WriteAt(d[out].b, 0, d[in].b))],
                         out, g.id) :
         g \in {GetFileID(d, in)}})

-----------------------------------------------------------------------------
(* File handles.  An operation is followed through its calls of os.Open,   *)
(* os.OpenFile and Close: ev is the sequence of these events, fault names  *)
(* the call that the host makes fail ("none": no call fails), and a write  *)
(* that fails has written nothing.  A deferred Close runs when its         *)
(* function returns.                                                       *)

hOpen(fn, name) == [e |-> "open", fn |-> fn, name |-> name]

hClose(fn, name) == [e |-> "close", fn |-> fn, name |-> name]

\* os.Exit: the process ends without running the deferred calls.
hExit == [e |-> "exit", fn |-> "", name |-> ""]

\* GetFileID: f is closed by defer on every return after os.Open.
hGetFileID(d, fName, fault) ==
    IF ~d[fName].ex THEN [err |-> "notexist", id |-> ZeroID, ev |-> <<>>]
    ELSE IF fault = "GetFileID.Open" THEN [err |-> "io", id |-> ZeroID, ev |-> <<>>]
    ELSE The({[err |-> IF fault \in {"GetFileID.Stat", "GetFileID.ReadAt"} THEN "io" ELSE g.err,
               id |-> IF fault \in {"GetFileID.Stat", "GetFileID.ReadAt"} THEN ZeroID ELSE g.id,
               ev |-> <<hOpen("GetFileID", fName), hClose("GetFileID", fName)>>] :
              g \in {GetFileID(d, fName)}})

\* getZipBytes: f is closed by defer on every return, and when make panics.
hgetZipBytes(d, fName, offset, zipLen, fault) ==
    IF ~d[fName].ex THEN [err |-> "notexist", ev |-> <<>>]
    ELSE IF fault = "getZipBytes.Open" THEN [err |-> "io", ev |-> <<>>]
    ELSE [err |-> IF fault = "getZipBytes.ReadAt" THEN "io"
                  ELSE getZipBytes(d, fName, offset, zipLen).err,
          ev |-> <<hOpen("getZipBytes", fName), hClose("getZipBytes", fName)>>]

\* GetStuff
hGetStuff(d, in, fault) ==
    The({IF g.err # "nil" THEN [err |-> g.err, ev |-> g.ev]
         ELSE The({[err |-> z.err, ev |-> g.ev \o z.ev] :
                   z \in {hgetZipBytes(d, in, g.id.BinSize, g.id.ZipSize, fault)}}) :
         g \in {hGetFileID(d, in, fault)}})

\* zipFile: z is closed by defer on every return after os.Open.
hzipFile(srcPath, fault) ==
    IF fault = "zipFile.Open" THEN [err |-> "io", ev |-> <<>>]
    ELSE [err |-> IF fault \in {"zipFile.Stat", "zipFile.CreateHeader", "zipFile.Copy"}
                  THEN "io" ELSE "nil",
          ev |-> <<hOpen("zipFile", srcPath), hClose("zipFile", srcPath)>>]

\* The callbacks of zipFiles from the i-th on; the first error ends them.
RECURSIVE hzipFrom(_, _, _)
hzipFrom(items, i, fault) ==
    IF i > Len(items) THEN [err |-> "nil", ev |-> <<>>]
    ELSE The({IF z.err # "nil" THEN z
              ELSE The({[err |-> r.err, ev |-> z.ev \o r.ev] :
                        r \in {hzipFrom(items, i + 1, fault)}}) :
              z \in {hzipFile(items[i].src, fault)}})

\* zipFiles: the callbacks made before an error of the resolver are made.
hzipFiles(rootPath, paths, fault) ==
    The({The({IF z.err # "nil" THEN z ELSE [err |-> w.err, ev |-> z.ev] :
              z \in {hzipFrom(w.items, 1, fault)}}) :
         w \in {walkPaths(rootPath, paths)}})

\* The callback of NewLocalFS: f is opened and read, and no Close is
\* called on it.
hlocalFile(srcPath, fault) ==
    IF fault = "NewLocalFS.Open" THEN [err |-> "io", ev |-> <<>>]
    ELSE [err |-> IF fault = "NewLocalFS.Copy" THEN "io" ELSE "nil",
          ev |-> <<hOpen("NewLocalFS", srcPath)>>]

\* The callbacks of NewLocalFS from the i-th on, m the FileSystem so far.
RECURSIVE hlocalFrom(_, _, _, _)
hlocalFrom(m, items, i, fault) ==
    IF i > Len(items) THEN [err |-> "nil", ev |-> <<>>]
    ELSE The({
        IF f.err # "nil" THEN f
        ELSE The({IF a.err # "nil" THEN [err |-> a.err, ev |-> f.ev]
                  ELSE The({[err |-> r.err, ev |-> f.ev \o r.ev] :
                            r \in {hlocalFrom(a.fs, items, i + 1, fault)}}) :
                  a \in {Add(m, NewFile(items[i].target, HostData(items[i].src)))}}) :
        f \in {hlocalFile(items[i].src, fault)}})

\* NewLocalFS
hNewLocalFS(rootPath, paths, fault) ==
    The({The({IF a.err # "nil" THEN a ELSE [err |-> w.err, ev |-> a.ev] :
              a \in {hlocalFrom(NewFS, w.items, 1, fault)}}) :
         w \in {walkPaths(rootPath, paths)}})

\* copyFile once to is open and io.Copy has succeeded: to is returned, and
\* is neither closed nor returned when Truncate or Seek fails.
hcopyTail(d, in, out, fault) ==
    The({The({
        IF ~(old.err = "nil" /\ AlreadyStuffed(old.id))
        THEN [err |-> "nil", d |-> cp.d, ev |-> old.ev, held |-> TRUE]
        ELSE IF cp.err # "nil" \/ fault = "copyFile.Truncate"
        THEN [err |-> "io", ev |-> old.ev, held |-> FALSE,
              d |-> [d EXCEPT ![out] = FileOf(WriteAt(d[out].b, 0, d[in].b))]]
        ELSE IF fault = "copyFile.Seek"
        THEN [err |-> "io", d |-> cp.d, ev |-> old.ev, held |-> FALSE]
        ELSE [err |-> "nil", d |-> cp.d, ev |-> old.ev, held |-> TRUE] :
        cp \in {copyFile(d, in, out)}}) :
     old \in {hGetFileID(d, in, fault)}})

\* copyFile: from is closed by defer; to is closed when io.Copy fails.
hcopyFile(d, in, out, fault) ==
    IF ~d[in].ex THEN [err |-> "notexist", d |-> d, ev |-> <<>>, held |-> FALSE]
    ELSE IF fault = "copyFile.Open" THEN [err |-> "io", d |-> d, ev |-> <<>>, held |-> FALSE]
    ELSE IF fault \in {"copyFile.Stat", "copyFile.OpenFile"}
    THEN [err |-> "io", d |-> d, held |-> FALSE,
          ev |-> <<hOpen("copyFile", in), hClose("copyFile", in)>>]
    ELSE IF fault = "copyFile.Copy"
    THEN [err |-> "io", d |-> [d EXCEPT ![out] = FileOf(d[out].b)], held |-> FALSE,
          ev |-> <<hOpen("copyFile", in), hOpen("copyFile", out), hClose("copyFile", out),
                   hClose("copyFile", in)>>]
    ELSE The({[err |-> t.err, d |-> t.d, held |-> t.held,
               ev |-> <<hOpen("copyFile", in), hOpen("copyFile", out)>> \o t.ev
                      \o <<hClose("copyFile", in)>>] :
              t \in {hcopyTail(d, in, out, fault)}})

\* Stuff: the handle copyFile returns is closed by defer.
hStuff(d, in, out, rootPath, files, fault) ==
    The({
        IF zf.err # "nil" THEN [err |-> zf.err, d |-> d, ev |-> zf.ev]
        ELSE The({
            IF cp.err # "nil" THEN [err |-> cp.err, d |-> cp.d, ev |-> zf.ev \o cp.ev]
            ELSE [err |-> IF fault \in {"Stuff.Copy", "Stuff.Write"} THEN "io" ELSE "nil",
                  d |-> IF fault \in {"Stuff.Copy", "Stuff.Write"} THEN cp.d
                        ELSE Stuff(d, in, out, rootPath, files).d,
                  ev |-> zf.ev \o cp.ev \o <<hClose("copyFile", out)>>] :
            cp \in {hcopyFile(d, in, out, fault)}}) :
        zf \in {hzipFiles(rootPath, files, fault)}})

\* strip once from and to are open: to is closed again when io.Copy
\* fails, l.Fatalf ends the process when Truncate fails, and both are
\* closed by defer otherwise.
hstripTail(d, in, out, id, fault) ==
    IF fault = "strip.Copy"
    THEN [err |-> "io", d |-> [d EXCEPT ![out] = FileOf(d[out].b)],
          ev |-> <<hClose("strip", out), hClose("strip", out), hClose("strip", in)>>]
    ELSE The({
        IF st.err # "nil" \/ fault = "strip.Truncate"
        THEN [err |-> "fatal", ev |-> <<hExit>>,
              d |-> [d EXCEPT ![out] = FileOf(WriteAt(d[out].b, 0, d[in].b))]]
        ELSE [err |-> IF fault = "strip.Sync" THEN "io" ELSE "nil", d |-> st.d,
              ev |-> <<hClose("strip", out), hClose("strip", in)>>] :
        st \in {strip(d, in, out)}})

\* strip
hstrip(d, in, out, fault) ==
    The({
        IF g.err # "nil" THEN [err |-> "Errorf", d |-> d, ev |-> g.ev]
        ELSE IF fault = "strip.Open" THEN [err |-> "io", d |-> d, ev |-> g.ev]
        ELSE IF fault = "strip.OpenFile"
        THEN [err |-> "io", d |-> d,
              ev |-> g.ev \o <<hOpen("strip", in), hClose("strip", in)>>]
        ELSE The({[err |-> t.err, d |-> t.d,
                   ev |-> g.ev \o <<hOpen("strip", in), hOpen("strip", out)>> \o t.ev] :
                  t \in {hstripTail(d, in, out, g.id, fault)}}) :
        g \in {hGetFileID(d, in, fault)}})

\* unstuff: to is closed by defer, and once more before it when io.Copy
\* fails; out is opened without truncation.
hunstuff(d, in, out, fault) ==
    The({
        IF g.err # "nil" THEN [err |-> "Errorf", d |-> d, ev |-> g.ev]
        ELSE The({
            IF b.err # "nil" THEN [err |-> b.err, d |-> d, ev |-> g.ev \o b.ev]
            ELSE IF fault = "unstuff.OpenFile" THEN [err |-> "io", d |-> d, ev |-> g.ev \o b.ev]
            ELSE IF fault = "unstuff.Copy"
            THEN [err |-> "io", d |-> [d EXCEPT ![out] = FileOf(d[out].b)],
                  ev |-> g.ev \o b.ev \o <<hOpen("unstuff", out), hClose("unstuff", out),
                                           hClose("unstuff", out)>>]
            ELSE [err |-> "nil",
                  d |-> [d EXCEPT ![out] = FileOf(WriteAt(d[out].b, 0, GetStuff(d, in).b))],
                  ev |-> g.ev \o b.ev \o <<hOpen("unstuff", out), hClose("unstuff", out)>>] :
            b \in {hGetStuff(d, in, fault)}}) :
        g \in {hGetFileID(d, in, fault)}})

-----------------------------------------------------------------------------
(* The specification of stuffing: a never-stuffed binary is on disk, and   *)
(* Stuff, GetFileID, GetStuff and UnStuff are called in any order on any   *)
(* of the files.                                                           *)

MaxSteps == 2

\* The never-stuffed binaries the runs start from.
Binaries == {<<>>, <<7>>, <<7, 9>>}

\* The rootPath arguments.
Roots == {<<"/">>, <<"/", "r", "/">>}

\* The file lists.
SpecLists ==
    { << <<"b">> >>,
      << <<"b">>, <<"d", "/", "a", ":", "/", "v", "/", "a">> >>,
      << <<"n">> >> }

NoRet ==
    [op |-> "none", in |-> "", out |-> "", err |-> "nil", nil |-> TRUE,
     orig |-> 0, zlen |-> 0, id |-> ZeroID, b |-> <<>>, fs |-> NewFS,
     root |-> <<>>, specs |-> <<>>, z |-> <<>>,
     inPre |-> NoFile, outPre |-> NoFile, base |-> -1,
     path |-> <<>>, fsPre |-> NewFS, f |-> NewFile(<<>>, <<>>),
     src |-> NewFS, order |-> <<>>, items |-> <<>>,
     pattern |-> <<>>, matches |-> <<>>,
     ev |-> <<>>, fault |-> "none"]

Init ==
    /\ \E b \in Binaries :
          /\ disk = [n \in BinNames |-> IF n = "bin" THEN FileOf(b) ELSE NoFile]
          /\ origin = [n \in BinNames |-> IF n = "bin" THEN Len(b) ELSE -1]
    /\ steps = 0
    /\ ret = NoRet
    /\ idIn = ZeroID
    /\ fs = NewFS

DoStuff(in, out, rootPath, files) ==
    /\ steps < MaxSteps
    /\ \E r \in {Stuff(disk, in, out, rootPath, files)} :
        /\ steps' = steps + 1
        /\ disk' = r.d
        /\ origin' = IF r.err = "nil" THEN [origin EXCEPT ![out] = origin[in]]
                     ELSE IF r.d = disk THEN origin
                     ELSE [origin EXCEPT ![out] = -1]
        /\ ret' = [NoRet EXCEPT !.op = "Stuff", !.in = in, !.out = out, !.err = r.err,
                                !.nil = FALSE, !.orig = r.orig, !.zlen = r.zlen,
                                !.root = rootPath, !.specs = files, !.z = r.z,
                                !.inPre = disk[in], !.outPre = disk[out],
                                !.base = origin[in]]
        /\ UNCHANGED <<idIn, fs>>

DoGetFileID(f) ==
    \E r \in {GetFileID(disk, f)} :
        /\ ret' = [NoRet EXCEPT !.op = "GetFileID", !.in = f, !.err = r.err,
                                !.nil = FALSE, !.id = r.id, !.inPre = disk[f]]
        /\ UNCHANGED <<disk, origin, steps, idIn, fs>>

DoGetStuff(f) ==
    \E r \in {GetStuff(disk, f)} :
        /\ ret' = [NoRet EXCEPT !.op = "GetStuff", !.in = f, !.err = r.err,
                                !.nil = r.nil, !.b = r.b, !.inPre = disk[f]]
        /\ UNCHANGED <<disk, origin, steps, idIn, fs>>

DoUnStuff(f) ==
    \E r \in {UnStuff(disk, f)} :
        /\ ret' = [NoRet EXCEPT !.op = "UnStuff", !.in = f, !.err = r.err,
                                !.nil = r.nil, !.fs = r.fs, !.inPre = disk[f]]
        /\ UNCHANGED <<disk, origin, steps, idIn, fs>>

Next ==
    \/ \E in \in BinNames, out \in BinNames, r \in Roots, l \in SpecLists :
          DoStuff(in, out, r, l)
    \/ \E f \in BinNames : DoGetFileID(f)
    \/ \E f \in BinNames : DoGetStuff(f)
    \/ \E f \in BinNames : DoUnStuff(f)

Spec == Init /\ [][Next]_vars

-----------------------------------------------------------------------------
(* The specification of stripping: a never-stuffed binary is on disk, and  *)
(* Stuff and strip are called in any order on any of the files.            *)

\* The largest number of calls of one behaviour; Stuff is called at most
\* MaxSteps times.
MaxStripSteps == 3

\* The file lists given to Stuff: with the two roots they make archives of
\* two lengths.
StripLists == { << <<"b">> >> }

DoStrip(in, out) ==
    /\ steps < MaxStripSteps
    /\ \E r \in {strip(disk, in, out)} :
        /\ steps' = steps + 1
        /\ disk' = r.d
        /\ origin' = IF r.d = disk THEN origin
                     ELSE [origin EXCEPT ![out] = IF r.err = "nil" THEN origin[in] ELSE -1]
        /\ ret' = [NoRet EXCEPT !.op = "Strip", !.in = in, !.out = out, !.err = r.err,
                                !.nil = FALSE, !.inPre = disk[in], !.outPre = disk[out],
                                !.base = origin[in]]
        /\ UNCHANGED <<idIn, fs>>

NextStrip ==
    \/ \E in \in BinNames, out \in BinNames, r \in Roots, l \in StripLists :
          DoStuff(in, out, r, l)
    \/ \E in \in BinNames, out \in BinNames : DoStrip(in, out)

SpecStrip == Init /\ [][NextStrip]_vars

-----------------------------------------------------------------------------
(* The specification of the file handles: one operation is called, on a    *)
(* disk with a never-stuffed binary or one that Stuff has written, while   *)
(* the host makes one of its calls fail, or none.                          *)

\* The calls that can be made to fail.
HandleFaults ==
    {"none",
     "GetFileID.Open", "GetFileID.Stat", "GetFileID.ReadAt",
     "getZipBytes.Open", "getZipBytes.ReadAt",
     "zipFile.Open", "zipFile.Stat", "zipFile.CreateHeader", "zipFile.Copy",
     "NewLocalFS.Open", "NewLocalFS.Copy",
     "copyFile.Open", "copyFile.Stat", "copyFile.OpenFile", "copyFile.Copy",
     "copyFile.Truncate", "copyFile.Seek", "Stuff.Copy", "Stuff.Write",
     "strip.Open", "strip.OpenFile", "strip.Copy", "strip.Truncate", "strip.Sync",
     "unstuff.OpenFile", "unstuff.Copy"}

\* The disks: bin never stuffed, bin stuffed into out, bin stuffed in place.
HandleDisks ==
    UNION { {d, Stuff(d, "bin", "out", <<"/">>, << <<"b">> >>).d,
                Stuff(d, "bin", "bin", <<"/">>, << <<"b">> >>).d} :
            d \in { [n \in BinNames |-> IF n = "bin" THEN FileOf(b) ELSE NoFile] :
                    b \in Binaries } }

\* The file lists: one file, a file and a directory that holds it (the
\* same virtual path twice), a missing file after a file.
HandleLists ==
    { << <<"b">> >>,
      << <<"d", "/", "a">>, <<"d">> >>,
      << <<"b">>, <<"n">> >> }

InitHandles ==
    /\ disk \in HandleDisks
    /\ origin = [n \in BinNames |-> -1]
    /\ steps = 0
    /\ ret = NoRet
    /\ idIn = ZeroID
    /\ fs = NewFS

\* The step that every operation of this specification takes, r its result.
HandleStep(op, in, out, fault, r) ==
    /\ steps' = 1
    /\ disk' = r.d
    /\ ret' = [NoRet EXCEPT !.op = op, !.in = in, !.out = out, !.err = r.err,
                            !.nil = FALSE, !.ev = r.ev, !.fault = fault,
                            !.inPre = disk[in], !.outPre = disk[out]]
    /\ UNCHANGED <<origin, idIn, fs>>

DoHandlesStuff(in, out, files, fault) ==
    /\ steps = 0
    /\ \E r \in {hStuff(disk, in, out, <<"/">>, files, fault)} :
           HandleStep("Stuff", in, out, fault, r)

DoHandlesGetStuff(in, fault) ==
    /\ steps = 0
    /\ \E r \in {hGetStuff(disk, in, fault)} :
           HandleStep("GetStuff", in, in, fault, [err |-> r.err, ev |-> r.ev, d |-> disk])

DoHandlesNewLocalFS(paths, fault) ==
    /\ steps = 0
    /\ \E r \in {hNewLocalFS(<<"/">>, paths, fault)} :
           HandleStep("NewLocalFS", "bin", "bin", fault, [err |-> r.err, ev |-> r.ev, d |-> disk])

DoHandlesStrip(in, out, fault) ==
    /\ steps = 0
    /\ \E r \in {hstrip(disk, in, out, fault)} : HandleStep("strip", in, out, fault, r)

DoHandlesUnstuff(in, out, fault) ==
    /\ steps = 0
    /\ \E r \in {hunstuff(disk, in, out, fault)} : HandleStep("unstuff", in, out, fault, r)

NextHandles ==
    \/ \E in \in BinNames, out \in BinNames, l \in HandleLists, x \in HandleFaults :
          DoHandlesStuff(in, out, l, x)
    \/ \E in \in BinNames, x \in HandleFaults : DoHandlesGetStuff(in, x)
    \/ \E l \in HandleLists, x \in HandleFaults : DoHandlesNewLocalFS(l, x)
    \/ \E in \in BinNames, out \in BinNames, x \in HandleFaults : DoHandlesStrip(in, out, x)
    \/ \E in \in BinNames, out \in BinNames, x \in HandleFaults : DoHandlesUnstuff(in, out, x)

SpecHandles == InitHandles /\ [][NextHandles]_vars

-----------------------------------------------------------------------------
(* The specification of the identifier codec: an ID is encoded, a file     *)
(* that ends in its bytes (or is cut short of them) is put on disk, and    *)
(* the readers are called on it.                                           *)

\* uint64 values: small sizes, the sizes of the repository's test, one with
\* eight different bytes, 2^16, 2^63 and 2^64-1.
U64s ==
    { U64(0), U64(3), U64(8), U64(338), U64(512), <<0, 0, 1, 0>>,
      <<258, 772, 1286, 1800>>, <<Limb \div 2, 0, 0, 0>>,
      <<Limb - 1, Limb - 1, Limb - 1, Limb - 1>> }

\* 's','t','u','f','f','b','i','m': a tag that differs in its last byte.
otherName == <<115, 116, 117, 102, 102, 98, 105, 109>>

Names == {buildName, otherName}

\* The longest of the Bodies.
MaxBody == 16

\* What precedes the identifier in a file: nothing, a binary, an empty
\* archive, and a binary of 8 bytes followed by an archive of one entry.
Bodies ==
    { <<>>, <<7, 9>>, <<80, 75, 0>>,
      <<1, 2, 3, 4, 5, 6, 7, 8, 2, 47, 98, 1, 11, 80, 75, 1>> }

InitID ==
    /\ idIn \in [Name : Names, BinSize : U64s, ZipSize : U64s]
    /\ disk = [n \in BinNames |-> NoFile]
    /\ origin = [n \in BinNames |-> -1]
    /\ steps = 0
    /\ ret = NoRet
    /\ fs = NewFS

\* makeIDBytes(idIn)
DoMakeIDBytes ==
    /\ ret' = [NoRet EXCEPT !.op = "makeIDBytes", !.nil = FALSE, !.id = idIn,
                            !.b = makeIDBytes(idIn)]
    /\ UNCHANGED <<disk, origin, steps, idIn, fs>>

\* A file is written: body followed by the bytes of idIn, cut after its
\* first n bytes.
DoWriteFile(body, n) ==
    /\ steps = 0
    /\ n <= Len(body) + lenID
    /\ steps' = 1
    /\ disk' = [disk EXCEPT !["bin"] = FileOf(SubSeq(body \o makeIDBytes(idIn), 1, n))]
    /\ ret' = NoRet
    /\ UNCHANGED <<origin, idIn, fs>>

NextID ==
    \/ DoMakeIDBytes
    \/ \E body \in Bodies, n \in 0..(MaxBody + lenID) : DoWriteFile(body, n)
    \/ \E f \in BinNames : DoGetFileID(f)
    \/ \E f \in BinNames : DoGetStuff(f)
    \/ \E f \in BinNames : DoUnStuff(f)

SpecID == InitID /\ [][NextID]_vars

-----------------------------------------------------------------------------
(* The specification of the FileSystem: files of any spelling of a few     *)
(* paths are added to a FileSystem that starts empty.                      *)

MaxOps == 3

\* Spellings of the paths /a and /d/a, one of them with the separator of
\* another host, and /b.
Spellings ==
    { <<"a">>, <<"/", "a">>, <<".", "/", "a">>,
      <<"d", "/", "a">>, <<"/", "d", "/", "a">>, <<"/", "d", "/", ".", "/", "a">>,
      <<"d", "\\", ".", "\\", "a">>, <<"/", "b">> }

Contents == {<<1>>, <<2, 3>>}

InitFS ==
    /\ fs = NewFS
    /\ disk = [n \in BinNames |-> NoFile]
    /\ origin = [n \in BinNames |-> -1]
    /\ steps = 0
    /\ ret = NoRet
    /\ idIn = ZeroID

\* fs.Add(NewFile(path, info, b))
DoAdd(path, b) ==
    /\ steps < MaxOps
    /\ \E r \in {Add(fs, NewFile(path, b))} :
        /\ steps' = steps + 1
        /\ fs' = r.fs
        /\ ret' = [NoRet EXCEPT !.op = "Add", !.err = r.err, !.nil = FALSE,
                                !.path = path, !.b = b, !.fsPre = fs]
        /\ UNCHANGED <<disk, origin, idIn>>

\* fs.Delete(path)
DoDelete(path) ==
    /\ steps < MaxOps
    /\ \E r \in {Delete(fs, path)} :
        /\ steps' = steps + 1
        /\ fs' = r.fs
        /\ ret' = [NoRet EXCEPT !.op = "Delete", !.err = r.err, !.nil = FALSE,
                                !.path = path, !.fsPre = fs]
        /\ UNCHANGED <<disk, origin, idIn>>

\* fs.Get(path)
DoGet(path) ==
    /\ steps < MaxOps
    /\ \E r \in {Get(fs, path)} :
        /\ steps' = steps + 1
        /\ ret' = [NoRet EXCEPT !.op = "Get", !.err = r.err, !.nil = (r.err # "nil"),
                                !.path = path, !.f = r.f, !.fsPre = fs]
        /\ UNCHANGED <<disk, origin, idIn, fs>>

\* fs.Open(path)
DoOpen(path) ==
    /\ steps < MaxOps
    /\ \E r \in {Open(fs, path)} :
        /\ steps' = steps + 1
        /\ ret' = [NoRet EXCEPT !.op = "Open", !.err = r.err, !.nil = (r.err # "nil"),
                                !.path = path, !.f = r.f, !.fsPre = fs]
        /\ UNCHANGED <<disk, origin, idIn, fs>>

\* fs.Read(path)
DoRead(path) ==
    /\ steps < MaxOps
    /\ \E r \in {Read(fs, path)} :
        /\ steps' = steps + 1
        /\ ret' = [NoRet EXCEPT !.op = "Read", !.err = r.err, !.nil = r.nil,
                                !.path = path, !.b = r.b, !.fsPre = fs]
        /\ UNCHANGED <<disk, origin, idIn, fs>>

\* The FileSystem that Add of each (path, content) of adds, in turn, builds.
RECURSIVE FSOf(_, _)
FSOf(adds, n) ==
    IF n = 0 THEN NewFS ELSE Add(FSOf(adds, n - 1), NewFile(adds[n][1], adds[n][2])).fs

\* The FileSystems merged into fs.
Sources ==
    { FSOf(adds, Len(adds)) : adds \in
        { <<>>,
          << <<<<"/", "a">>, <<5>>>> >>,
          << <<<<"a">>, <<5, 6>>>>, <<<<"/", "b">>, <<7>>>> >>,
          << <<<<"d", "/", "a">>, <<8>>>>, <<<<"/", "n">>, <<9>>>> >>,
          << <<<<"d", "\\", ".", "\\", "a">>, <<4>>>>, <<<<"/", "n">>, <<9>>>> >> } }

\* The orders in which List() can return the paths of m.
Orders(m) ==
    { o \in [1..Cardinality(DOMAIN m.files) -> DOMAIN m.files] :
        \A i, j \in DOMAIN o : o[i] = o[j] => i = j }

\* fs.Merge(src), with src.List() returning the paths in the given order
DoMerge(src, order) ==
    /\ steps < MaxOps
    /\ \E r \in {Merge(fs, src, order)} :
        /\ steps' = steps + 1
        /\ fs' = r.fs
        /\ ret' = [NoRet EXCEPT !.op = "Merge", !.err = r.err, !.nil = FALSE,
                                !.src = src, !.order = order, !.fsPre = fs]
        /\ UNCHANGED <<disk, origin, idIn>>

NextFS ==
    \/ \E path \in Spellings, b \in Contents : DoAdd(path, b)
    \/ \E path \in Spellings : DoDelete(path)
    \/ \E path \in Spellings : DoGet(path)
    \/ \E path \in Spellings : DoOpen(path)
    \/ \E path \in Spellings : DoRead(path)
    \/ \E src \in Sources : \E order \in Orders(src) : DoMerge(src, order)

SpecFS == InitFS /\ [][NextFS]_vars

-----------------------------------------------------------------------------
(* Glob over FileSystems whose paths are fixed at the start.               *)

\* The largest number of Glob calls of one behaviour
MaxGlobs == 2

\* The FileSystems that are globbed; the second holds /d/a.x and /d/a.b as
\* the mock directory holds mock.exe and mock.go.
GlobSystems ==
    { FSOf(adds, Len(adds)) : adds \in
        { <<>>,
          << <<<<"/", "d", "/", "a", ".", "x">>, <<1>>>>,
             <<<<"/", "d", "/", "a", ".", "b">>, <<2>>>> >>,
          << <<<<"/", "d", "/", "a", ".", "x">>, <<1>>>>,
             <<<<"/", "d", "/", "a", ".", "b">>, <<2>>>>,
             <<<<"/", "d", "/", "a", ".", "x", ".", "s">>, <<3>>>> >>,
          << <<<<"/", "b">>, <<4>>>>,
             <<<<"/", "d", "/", "s", "/", "x">>, <<5>>>>,
             <<<<"/", "a">>, <<LeftBrace, LeftBrace>>>> >> } }

\* The patterns: literals, '*', '?', classes, escapes, and malformed ones
\* (an open class, an empty class, a range with no end, a last backslash).
GlobPatterns ==
    { <<>>,
      <<"*">>,
      <<"/", "*">>,
      <<"/", "*", "*">>,
      <<"/", "b">>,
      <<"/", "n">>,
      <<"/", "?">>,
      <<"/", "d", "?", "a", ".", "x">>,
      <<"/", "\\", "b">>,
      <<"/", "b", "\\">>,
      <<"/", "d", "/", "*">>,
      <<"/", "d", "/", "*", ".", "x">>,
      <<"/", "d", "/", "*", ".", "x", "*">>,
      <<"/", "d", "/", "a", ".", "?">>,
      <<"/", "d", "/", "a", "*", "s">>,
      <<"/", "*", "/", "a", ".", "b">>,
      <<"/", "*", "/", "*">>,
      <<"/", "*", "/", "*", "/", "*">>,
      <<"/", "d", "*", "x">>,
      <<"/", "[", "a", "b", "]">>,
      <<"/", "[", "b", "-", "d", "]">>,
      <<"/", "[", "d", "-", "b", "]">>,
      <<"/", "[", "^", "a", "]">>,
      <<"/", "d", "[", "^", "a", "]", "a", "*">>,
      <<"/", "d", "/", "[", "\\", "a", "]", ".", "[", "a", "-", "b", "x", "]">>,
      <<"/", "d", "/", "a", ".", "[">>,
      <<"/", "n", "*", "[", "a">>,
      <<"/", "[", "]">>,
      <<"/", "[", "a", "-", "]">>,
      <<"/", "[", "^", "]">>,
      <<"/", "*", "\\">> }

InitGlob ==
    /\ disk = [n \in BinNames |-> NoFile]
    /\ origin = [n \in BinNames |-> <<>>]
    /\ steps = 0
    /\ ret = NoRet
    /\ idIn = ZeroID
    /\ fs \in GlobSystems

\* fs.Glob(pattern), with List() returning the paths in the given order
DoGlob(pattern, order) ==
    /\ steps < MaxGlobs
    /\ \E r \in {Glob(fs, pattern, order)} :
        /\ steps' = steps + 1
        /\ ret' = [NoRet EXCEPT !.op = "Glob", !.err = r.err, !.nil = r.nil,
                                !.pattern = pattern, !.order = order,
                                !.matches = r.out, !.fsPre = fs]
        /\ UNCHANGED <<disk, origin, idIn, fs>>

\* The path lists given to ParseTemplates: none, one path, two, a path
\* that is not in any of the FileSystems, the path of a malformed text.
TemplateLists ==
    { <<>>,
      << <<"/", "d", "/", "a", ".", "x">> >>,
      << <<"/", "d", "/", "a", ".", "b">>, <<"/", "d", "/", "a", ".", "x">> >>,
      << <<"/", "b">>, <<"/", "n">> >>,
      << <<"/", "b">>, <<"/", "a">> >> }

\* The patterns given to ParseTemplatesGlob: ones that match no path, one
\* path, several paths, the path of a malformed text, and malformed ones.
TemplatePatterns ==
    { <<>>,
      <<"/", "n">>,
      <<"/", "b">>,
      <<"/", "?">>,
      <<"/", "d", "/", "*">>,
      <<"/", "d", "/", "*", ".", "x">>,
      <<"/", "*", "/", "*", "/", "*">>,
      <<"/", "d", "/", "a", ".", "[">>,
      <<"/", "n", "*", "[", "a">> }

\* ParseTemplates(nil, fs, path...)
DoParseTemplates(path) ==
    /\ steps < MaxGlobs
    /\ \E r \in {ParseTemplates(fs, path)} :
        /\ steps' = steps + 1
        /\ ret' = [NoRet EXCEPT !.op = "ParseTemplates", !.err = r.err, !.nil = r.nil,
                                !.specs = path, !.f = r.tpl, !.fsPre = fs]
        /\ UNCHANGED <<disk, origin, idIn, fs>>

\* ParseTemplatesGlob(nil, fs, pattern), with List() returning the paths in
\* the given order
DoParseTemplatesGlob(pattern, order) ==
    /\ steps < MaxGlobs
    /\ \E r \in {ParseTemplatesGlob(fs, pattern, order)} :
        /\ steps' = steps + 1
        /\ ret' = [NoRet EXCEPT !.op = "ParseTemplatesGlob", !.err = r.err, !.nil = r.nil,
                                !.pattern = pattern, !.order = order, !.f = r.tpl,
                                !.fsPre = fs]
        /\ UNCHANGED <<disk, origin, idIn, fs>>

NextGlob ==
    \/ \E pattern \in GlobPatterns : \E order \in Orders(fs) : DoGlob(pattern, order)
    \/ \E path \in TemplateLists : DoParseTemplates(path)
    \/ \E pattern \in TemplatePatterns : \E order \in Orders(fs) :
          DoParseTemplatesGlob(pattern, order)

SpecGlob == InitGlob /\ [][NextGlob]_vars

-----------------------------------------------------------------------------
(* The specification of the path resolver: walkPaths and NewLocalFS are    *)
(* called once on a root path and a list of specs over the host tree.      *)

\* Root paths: "/", "/r/", "/r" and "".
WalkRoots == {<<"/">>, <<"/", "r", "/">>, <<"/", "r">>, <<>>}

\* Directories of the host tree, as a spec can spell them.
DirSources ==
    { <<".">>, <<".", "/">>, <<"d">>, <<"d", "/">>, <<".", "/", "d">>, <<"d", "/", "s">>,
      <<".", ".", "/", "w", "/", "d">> }

\* Files of the host tree, as a spec can spell them, and one that is missing.
FileSources ==
    { <<"b">>, <<".", "/", "b">>, <<"d", "/", "a">>, <<"d", "/", ".", ".", "/", "b">>,
      <<"/", "w", "/", "b">>, <<"d", "/", ".", "h">>, <<"n">> }

\* Aliases: "/v", "v/", "/v/a" and "v/./a".
Aliases ==
    { <<"/", "v">>, <<"v", "/">>, <<"/", "v", "/", "a">>, <<"v", "/", ".", "/", "a">> }

\* The specs "src" and "src:alias".
WalkSpecs ==
    (DirSources \cup FileSources)
        \cup {src \o <<":">> \o al : src \in DirSources \cup FileSources, al \in Aliases}

\* The lists of specs: every spec alone, and lists of two and three.
WalkLists ==
    { <<sp>> : sp \in WalkSpecs }
        \cup { <<<<"d", ":", "v">>, <<"b">>>>,
               <<<<"d">>, <<"d", "/", "a", ":", "/", "a">>>>,
               <<<<"b">>, <<"n">>, <<"d">>>>,
               <<<<"b", ":", "v", ":", "x">>>>,
               <<<<"d", "/", "a">>, <<"b", ":", "v", ":", "x">>, <<"b">>>>,
               <<<<"d", "/", "a">>, <<"d">>, <<"b">>>> }

\* The calls at which the callback can be made to fail.
FailAts == {1, 2}

InitWalk ==
    /\ fs = NewFS
    /\ disk = [n \in BinNames |-> NoFile]
    /\ origin = [n \in BinNames |-> -1]
    /\ steps = 0
    /\ ret = NoRet
    /\ idIn = ZeroID

\* walkPaths(cb, rootPath, paths...), cb recording its arguments
DoWalkPaths(rootPath, paths) ==
    /\ steps = 0
    /\ \E r \in {walkPaths(rootPath, paths)} :
        /\ steps' = 1
        /\ ret' = [NoRet EXCEPT !.op = "walkPaths", !.err = r.err, !.nil = FALSE,
                                !.root = rootPath, !.specs = paths, !.items = r.items]
        /\ UNCHANGED <<disk, origin, idIn, fs>>

\* fs, err := NewLocalFS(rootPath, paths...)
DoNewLocalFS(rootPath, paths) ==
    /\ steps = 0
    /\ \E r \in {NewLocalFS(rootPath, paths)} :
        /\ steps' = 1
        /\ fs' = r.fs
        /\ ret' = [NoRet EXCEPT !.op = "NewLocalFS", !.err = r.err, !.nil = r.nil,
                                !.root = rootPath, !.specs = paths]
        /\ UNCHANGED <<disk, origin, idIn>>

\* walkPaths(cb, rootPath, paths...), cb recording its arguments and
\* returning an error at its failAt-th call
DoWalkPathsFailing(rootPath, paths, failAt) ==
    /\ steps = 0
    /\ \E r \in {walkPathsFailing(rootPath, paths, failAt)} :
        /\ steps' = 1
        /\ ret' = [NoRet EXCEPT !.op = "walkPathsFailing", !.err = r.err, !.nil = FALSE,
                                !.root = rootPath, !.specs = paths, !.items = r.items,
                                !.base = failAt]
        /\ UNCHANGED <<disk, origin, idIn, fs>>

\* buf, err := zipFiles(rootPath, paths...)
DoZipFiles(rootPath, paths) ==
    /\ steps = 0
    /\ \E r \in {zipFiles(rootPath, paths)} :
        /\ steps' = 1
        /\ ret' = [NoRet EXCEPT !.op = "zipFiles", !.err = r.err, !.nil = r.err # "nil",
                                !.root = rootPath, !.specs = paths, !.z = r.z]
        /\ UNCHANGED <<disk, origin, idIn, fs>>

NextWalk ==
    \/ \E rootPath \in WalkRoots, paths \in WalkLists : DoWalkPaths(rootPath, paths)
    \/ \E rootPath \in WalkRoots, paths \in WalkLists : DoNewLocalFS(rootPath, paths)
    \/ \E rootPath \in WalkRoots, paths \in WalkLists, failAt \in FailAts :
          DoWalkPathsFailing(rootPath, paths, failAt)
    \/ \E rootPath \in WalkRoots, paths \in WalkLists : DoZipFiles(rootPath, paths)

SpecWalk == InitWalk /\ [][NextWalk]_vars

-----------------------------------------------------------------------------
(* The specification of the buffers of Files.  A []byte is the address of  *)
(* its backing array in heap; a File is its path, its size and the address *)
(* of its buffer b.  The variable fs holds two FileSystems, dest and src,  *)
(* the heap, and the addresses of the slices and buffers a caller holds:   *)
(* the slices given to NewFile, the slices Read returned, and the buffers  *)
(* of the Files Get returned.                                              *)

MaxBufOps == 3

\* make([]byte, len(b)) and copy(.., b) for the slice b at address a.
copyBuf(heap, a) == [heap |-> Append(heap, heap[a]), a |-> Len(heap) + 1]

\* NewFile with the File's buffer being the slice it is given.
bufNewFileShared(heap, path, a) ==
    [heap |-> heap, f |-> [path |-> path, size |-> Len(heap[a]), buf |-> a]]

\* NewFile: the bytes are copied to a buffer of the File's own.
bufNewFile(heap, path, a) ==
    The({[heap |-> c.heap, f |-> [path |-> path, size |-> Len(heap[a]), buf |-> c.a]] :
         c \in {copyBuf(heap, a)}})

NoBufFile == [path |-> <<>>, size |-> 0, buf |-> 0]

NewBufFS == [files |-> [k \in {} |-> NoBufFile], size |-> 0]

\* memFS.Add: the File f itself is stored.
bufAdd(m, f) ==
    IF f.path \in DOMAIN m.files
    THEN [err |-> "exists", fs |-> m]
    ELSE [err |-> "nil",
          fs |-> [files |-> MapPut(m.files, cleanPath(<<>>, f.path), f),
                  size |-> m.size + f.size]]

\* memFS.Get: NewFile(f.path, f.info, f.b) of the entry found.
bufGet(heap, m, fPath) ==
    The({IF k \in DOMAIN m.files
         THEN The({[err |-> "nil", heap |-> nf.heap, f |-> nf.f] :
                   nf \in {bufNewFile(heap, m.files[k].path, m.files[k].buf)}})
         ELSE [err |-> "notexist", heap |-> heap, f |-> NoBufFile] :
         k \in {cleanPath(<<"/">>, fPath)}})

\* File.ReadBytes
bufReadBytes(heap, f) == copyBuf(heap, f.buf)

\* memFS.Read: the address of the slice returned, 0 for nil.
bufRead(heap, m, fPath) ==
    The({IF g.err # "nil" THEN [err |-> g.err, heap |-> g.heap, a |-> 0]
         ELSE The({[err |-> "nil", heap |-> c.heap, a |-> c.a] :
                   c \in {bufReadBytes(g.heap, g.f)}}) :
         g \in {bufGet(heap, m, fPath)}})

\* memFS.Delete
bufDelete(m, fPath) ==
    The({IF k \notin DOMAIN m.files THEN [err |-> "notexist", fs |-> m]
         ELSE [err |-> "nil", fs |-> [files |-> MapDel(m.files, k), size |-> m.size]] :
         k \in {cleanPath(<<"/">>, fPath)}})

\* One round of MergeFS's loop on dest for the File f of src.Get(path).
bufMergeOne(dest, path, f) ==
    The({IF d.err # "nil" THEN d ELSE [err |-> "nil", fs |-> bufAdd(d.fs, f).fs] :
         d \in {IF cleanPath(<<"/">>, path) \in DOMAIN dest.files
                THEN bufDelete(dest, path)
                ELSE [err |-> "nil", fs |-> dest]}})

\* MergeFS from the i-th path of order; src.Get and dest.Get each make a
\* File with a buffer of its own.
RECURSIVE bufMergeFrom(_, _, _, _, _)
bufMergeFrom(heap, dest, src, order, i) ==
    IF i > Len(order) THEN [err |-> "nil", heap |-> heap, fs |-> dest]
    ELSE The({IF g.err # "nil" THEN [err |-> g.err, heap |-> g.heap, fs |-> dest]
              ELSE The({The({IF one.err # "nil"
                             THEN [err |-> one.err, heap |-> dg.heap, fs |-> dest]
                             ELSE bufMergeFrom(dg.heap, one.fs, src, order, i + 1) :
                             one \in {bufMergeOne(dest, order[i], g.f)}}) :
                        dg \in {bufGet(g.heap, dest, order[i])}}) :
              g \in {bufGet(heap, src, order[i])}})

\* MergeFS
bufMergeFS(heap, dest, src, order) == bufMergeFrom(heap, dest, src, order, 1)

BufSides == {"dest", "src"}

BufPaths == {<<"a">>, <<"/", "a">>, <<"/", "b">>}

BufContents == {<<1>>, <<2, 3>>}

InitBuf ==
    /\ fs = [dest |-> NewBufFS, src |-> NewBufFS, heap |-> <<>>, held |-> {}]
    /\ disk = [n \in BinNames |-> NoFile]
    /\ origin = [n \in BinNames |-> -1]
    /\ steps = 0
    /\ ret = NoRet
    /\ idIn = ZeroID

\* b := content; fs.Add(NewFile(path, info, b)), the caller keeping b
DoBufAdd(side, path, content) ==
    /\ steps < MaxBufOps
    /\ \E nf \in {bufNewFile(Append(fs.heap, content), path, Len(fs.heap) + 1)} :
       \E r \in {bufAdd(fs[side], nf.f)} :
        /\ steps' = steps + 1
        /\ fs' = [fs EXCEPT ![side] = r.fs, !.heap = nf.heap,
                            !.held = @ \cup {Len(fs.heap) + 1}]
        /\ ret' = [NoRet EXCEPT !.op = "Add", !.err = r.err, !.nil = FALSE,
                                !.path = path, !.b = content, !.fsPre = fs]
        /\ UNCHANGED <<disk, origin, idIn>>

\* f, err := fs.Get(path), the caller keeping the buffer of f
DoBufGet(side, path) ==
    /\ steps < MaxBufOps
    /\ \E r \in {bufGet(fs.heap, fs[side], path)} :
        /\ steps' = steps + 1
        /\ fs' = [fs EXCEPT !.heap = r.heap,
                            !.held = IF r.err = "nil" THEN @ \cup {r.f.buf} ELSE @]
        /\ ret' = [NoRet EXCEPT !.op = "Get", !.err = r.err, !.nil = (r.err # "nil"),
                                !.path = path, !.fsPre = fs]
        /\ UNCHANGED <<disk, origin, idIn>>

\* b, err := fs.Read(path), the caller keeping b
DoBufRead(side, path) ==
    /\ steps < MaxBufOps
    /\ \E r \in {bufRead(fs.heap, fs[side], path)} :
        /\ steps' = steps + 1
        /\ fs' = [fs EXCEPT !.heap = r.heap,
                            !.held = IF r.err = "nil" THEN @ \cup {r.a} ELSE @]
        /\ ret' = [NoRet EXCEPT !.op = "Read", !.err = r.err, !.nil = (r.err # "nil"),
                                !.path = path, !.fsPre = fs]
        /\ UNCHANGED <<disk, origin, idIn>>

\* dest.Merge(src), with src.List() returning the paths in the given order
DoBufMerge(order) ==
    /\ steps < MaxBufOps
    /\ \E r \in {bufMergeFS(fs.heap, fs.dest, fs.src, order)} :
        /\ steps' = steps + 1
        /\ fs' = [fs EXCEPT !.dest = r.fs, !.heap = r.heap]
        /\ ret' = [NoRet EXCEPT !.op = "Merge", !.err = r.err, !.nil = FALSE,
                                !.order = order, !.fsPre = fs]
        /\ UNCHANGED <<disk, origin, idIn>>

\* The caller overwrites every byte of a slice or buffer it holds.
DoBufMutate(a) ==
    /\ steps < MaxBufOps
    /\ steps' = steps + 1
    /\ fs' = [fs EXCEPT !.heap[a] = Zeros(Len(@))]
    /\ ret' = [NoRet EXCEPT !.op = "Mutate", !.nil = FALSE, !.orig = a, !.fsPre = fs]
    /\ UNCHANGED <<disk, origin, idIn>>

NextBuf ==
    \/ \E side \in BufSides, path \in BufPaths, content \in BufContents :
          DoBufAdd(side, path, content)
    \/ \E side \in BufSides, path \in BufPaths : DoBufGet(side, path)
    \/ \E side \in BufSides, path \in BufPaths : DoBufRead(side, path)
    \/ \E order \in Orders(fs.src) : DoBufMerge(order)
    \/ \E a \in fs.held : DoBufMutate(a)

SpecBuf == InitBuf /\ [][NextBuf]_vars

-----------------------------------------------------------------------------
(* The specification of concurrent readers: goroutines call the reading    *)
(* methods of one FileSystem, which nobody mutates, and the methods of the *)
(* Files they got from it.  A File is an object with a path, the address   *)
(* of its buffer b and the position of its bytes.Reader rd; fs holds the   *)
(* files map (path to object), the size, the objects and the buffers, and  *)
(* ret holds, for each goroutine, its last call and the File it keeps.     *)

\* The largest number of calls of one behaviour
MaxConcCalls == 4

Threads == {1, 2}

\* NewFile(path, info, b) for the slice b at address a: a new object with a
\* buffer of its own and a reader at 0.
concNewFile(st, path, a) ==
    [st |-> [st EXCEPT !.heap = Append(@, st.heap[a]),
                       !.objs = Append(@, [path |-> path, buf |-> Len(st.heap) + 1,
                                           pos |-> 0])],
     o |-> Len(st.objs) + 1]

\* memFS.Get returning the stored File itself.
concGetStored(st, fPath) ==
    The({IF k \in DOMAIN st.files THEN [err |-> "nil", st |-> st, o |-> st.files[k]]
         ELSE [err |-> "notexist", st |-> st, o |-> 0] :
         k \in {cleanPath(<<"/">>, fPath)}})

\* memFS.Get: NewFile(f.path, f.info, f.b) of the entry found.
concGet(st, fPath) ==
    The({IF k \in DOMAIN st.files
         THEN The({[err |-> "nil", st |-> nf.st, o |-> nf.o] :
                   nf \in {concNewFile(st, st.objs[st.files[k]].path,
                                       st.objs[st.files[k]].buf)}})
         ELSE [err |-> "notexist", st |-> st, o |-> 0] :
         k \in {cleanPath(<<"/">>, fPath)}})

\* memFS.Open
concOpen(st, path) == concGet(st, path)

\* memFS.Read: Get, then File.ReadBytes copies the File's bytes.
concRead(st, fPath) ==
    The({IF g.err # "nil" THEN [err |-> g.err, st |-> g.st, b |-> <<>>]
         ELSE [err |-> "nil", b |-> g.st.heap[g.st.objs[g.o].buf],
               st |-> [g.st EXCEPT !.heap = Append(@, g.st.heap[g.st.objs[g.o].buf])]] :
         g \in {concGet(st, fPath)}})

\* File.Read(b) with len(b) = n: bytes.Reader.Read from the reader's
\* position, which it moves on.
fileRead(st, o, n) ==
    The({The({IF pos >= Len(b) THEN [err |-> "EOF", st |-> st, b |-> <<>>]
              ELSE [err |-> "nil", b |-> SubSeq(b, pos + 1, Min(pos + n, Len(b))),
                    st |-> [st EXCEPT !.objs[o].pos = Min(pos + n, Len(b))]] :
              b \in {st.heap[st.objs[o].buf]}}) :
         pos \in {st.objs[o].pos}})

\* File.Seek(offset, whence), whence being io.SeekStart (0) or io.SeekEnd
\* (2): bytes.Reader.Seek.
fileSeek(st, o, offset, whence) ==
    The({IF abs < 0 THEN [err |-> "negative", st |-> st, pos |-> 0]
         ELSE [err |-> "nil", st |-> [st EXCEPT !.objs[o].pos = abs], pos |-> abs] :
         abs \in {IF whence = 0 THEN offset
                  ELSE Len(st.heap[st.objs[o].buf]) + offset}})

\* File.Close
fileClose(st, o) == fileSeek(st, o, 0, 0)

\* The FileSystem of the readers as memFS sees it.
ConcFS(st) ==
    [files |-> [k \in DOMAIN st.files |->
                   NewFile(st.objs[st.files[k]].path, st.heap[st.objs[st.files[k]].buf])],
     size |-> st.size]

ConcPaths == {<<"/", "a">>, <<"a">>, <<"/", "n">>}

ConcPatterns == {<<"/", "*">>, <<"/", "[">>}

\* The arguments (offset, whence) of Seek.
ConcSeeks == {<<0, 0>>, <<1, 0>>, <<-1, 2>>, <<-1, 0>>}

\* The lengths of the slices given to File.Read.
ConcLens == {1, 2}

NoCall == [op |-> "none", n |-> 0, f |-> 0, res |-> <<>>, err |-> "nil", arg |-> <<>>]

\* /a with three bytes and /b with one have been added.
InitConc ==
    /\ fs = [files |-> (<<"/", "a">> :> 1) @@ (<<"/", "b">> :> 2),
             size |-> 4,
             objs |-> <<[path |-> <<"/", "a">>, buf |-> 1, pos |-> 0],
                        [path |-> <<"/", "b">>, buf |-> 2, pos |-> 0]>>,
             heap |-> << <<1, 2, 3>>, <<4>> >>]
    /\ ret = [t \in Threads |-> NoCall]
    /\ disk = [n \in BinNames |-> NoFile]
    /\ origin = [n \in BinNames |-> -1]
    /\ steps = 0
    /\ idIn = ZeroID

\* Goroutine t returns from a call: st is the memory after it, f the File
\* that t keeps.
ConcStep(t, op, arg, st, f, res, err) ==
    /\ steps' = steps + 1
    /\ fs' = st
    /\ ret' = [ret EXCEPT ![t] = [op |-> op, n |-> @.n + 1, f |-> f, res |-> res,
                                  err |-> err, arg |-> arg]]
    /\ UNCHANGED <<disk, origin, idIn>>

DoConcGet(t, path) ==
    /\ steps < MaxConcCalls
    /\ \E r \in {concGet(fs, path)} :
          ConcStep(t, "Get", path, r.st, IF r.err = "nil" THEN r.o ELSE ret[t].f, <<>>, r.err)

DoConcOpen(t, path) ==
    /\ steps < MaxConcCalls
    /\ \E r \in {concOpen(fs, path)} :
          ConcStep(t, "Open", path, r.st, IF r.err = "nil" THEN r.o ELSE ret[t].f, <<>>, r.err)

DoConcRead(t, path) ==
    /\ steps < MaxConcCalls
    /\ \E r \in {concRead(fs, path)} :
          ConcStep(t, "Read", path, r.st, ret[t].f, r.b, r.err)

DoConcList(t, order) ==
    /\ steps < MaxConcCalls
    /\ ConcStep(t, "List", <<>>, fs, ret[t].f, order, "nil")

DoConcLen(t) ==
    /\ steps < MaxConcCalls
    /\ ConcStep(t, "Len", <<>>, fs, ret[t].f, <<FSLen(ConcFS(fs))>>, "nil")

DoConcSize(t) ==
    /\ steps < MaxConcCalls
    /\ ConcStep(t, "Size", <<>>, fs, ret[t].f, <<Size(ConcFS(fs))>>, "nil")

DoConcGlob(t, pattern, order) ==
    /\ steps < MaxConcCalls
    /\ \E r \in {Glob(ConcFS(fs), pattern, order)} :
          ConcStep(t, "Glob", pattern, fs, ret[t].f, r.out, r.err)

DoFileRead(t, n) ==
    /\ steps < MaxConcCalls
    /\ ret[t].f # 0
    /\ \E r \in {fileRead(fs, ret[t].f, n)} :
          ConcStep(t, "File.Read", <<n>>, r.st, ret[t].f, r.b, r.err)

DoFileSeek(t, offset, whence) ==
    /\ steps < MaxConcCalls
    /\ ret[t].f # 0
    /\ \E r \in {fileSeek(fs, ret[t].f, offset, whence)} :
          ConcStep(t, "File.Seek", <<offset, whence>>, r.st, ret[t].f, <<r.pos>>, r.err)

DoFileClose(t) ==
    /\ steps < MaxConcCalls
    /\ ret[t].f # 0
    /\ \E r \in {fileClose(fs, ret[t].f)} :
          ConcStep(t, "File.Close", <<>>, r.st, ret[t].f, <<>>, r.err)

NextConc ==
    \/ \E t \in Threads, path \in ConcPaths : DoConcGet(t, path)
    \/ \E t \in Threads, path \in ConcPaths : DoConcOpen(t, path)
    \/ \E t \in Threads, path \in ConcPaths : DoConcRead(t, path)
    \/ \E t \in Threads : \E order \in Orders(ConcFS(fs)) : DoConcList(t, order)
    \/ \E t \in Threads : DoConcLen(t)
    \/ \E t \in Threads : DoConcSize(t)
    \/ \E t \in Threads, pattern \in ConcPatterns :
          \E order \in Orders(ConcFS(fs)) : DoConcGlob(t, pattern, order)
    \/ \E t \in Threads, n \in ConcLens : DoFileRead(t, n)
    \/ \E t \in Threads, sk \in ConcSeeks : DoFileSeek(t, sk[1], sk[2])
    \/ \E t \in Threads : DoFileClose(t)

SpecConc == InitConc /\ [][NextConc]_vars

-----------------------------------------------------------------------------
(* Properties.                                                             *)

\* The last call was a Stuff that returned no error.
StuffOK == ret.op = "Stuff" /\ ret.err = "nil"

\* The (source, target) pairs the last Stuff was given.
Resolved == walkPaths(ret.root, ret.specs).items

Targets == {Resolved[i].target : i \in DOMAIN Resolved}

DistinctTargets ==
    \A i, j \in DOMAIN Resolved : Resolved[i].target = Resolved[j].target => i = j

\* The last lenID bytes of b, for b of lenID bytes or more.
LastID(b) == SubSeq(b, Len(b) - lenID + 1, Len(b))

\* The file has no identifier: it is too short, or its tag is not buildName.
NoIdentifier(f) ==
    f.ex /\ (Len(f.b) < lenID \/ SubSeq(LastID(f.b), 1, 8) # buildName)

\* The identifier Stuff returned the sizes of.
ReturnedID == makeID(buildName, U64(ret.orig), U64(ret.zlen))

\* The disk as it was before the last Stuff, seen from its input.
DiskPre == [n \in BinNames |-> ret.inPre]

\* C1: after a successful Stuff of pairs with distinct targets, UnStuff of
\* the output succeeds, lists exactly the target paths, and gives for each
\* target the bytes of its source file.
C1_RoundTrip ==
    StuffOK /\ DistinctTargets =>
        \E u \in {UnStuff(disk, ret.out)} :
            /\ u.err = "nil"
            /\ List(u.fs) = Targets
            /\ \A i \in DOMAIN Resolved :
                   Get(u.fs, Resolved[i].target).f.b = HostData(Resolved[i].src)

\* C2: after a successful Stuff the output file is as long as the returned
\* original size plus the returned archive size plus lenID, and its last
\* lenID bytes are the bytes of the identifier of these two sizes.
C2_SizeAndFooter ==
    StuffOK =>
        /\ Len(disk[ret.out].b) = ret.orig + ret.zlen + lenID
        /\ LastID(disk[ret.out].b) = makeIDBytes(ReturnedID)

\* C3: a successful Stuff whose input descends, through successful Stuff
\* calls only, from a binary B that was never stuffed returns the size of B
\* as the original size and writes it as BinSize of the identifier.
C3_IdempotentRestuff ==
    StuffOK /\ ret.base >= 0 =>
        /\ ret.orig = ret.base
        /\ Uint64(SubSeq(disk[ret.out].b, ret.orig + ret.zlen + 9,
                         ret.orig + ret.zlen + 16)) = U64(ret.base)

\* C4: the original size a successful Stuff returns and writes is the
\* BinSize of the identifier of its input when the input has one, and the
\* size of the input when it has none.
C4_OriginalSizeByFooter ==
    StuffOK =>
        \E g \in {GetFileID(DiskPre, ret.in)} :
            /\ g.err = "nil" =>
                   /\ U64(ret.orig) = g.id.BinSize
                   /\ Uint64(SubSeq(disk[ret.out].b, ret.orig + ret.zlen + 9,
                                    ret.orig + ret.zlen + 16)) = g.id.BinSize
            /\ g.err = "ErrNoID" => ret.orig = Len(ret.inPre.b)

\* C5: a successful Stuff of an input that has an identifier of BinSize n
\* leaves in the output the first n bytes of the input, the new archive and
\* the new identifier and nothing else, and UnStuff of the output lists the
\* targets of this call only.
C5_RestuffReplaces ==
    StuffOK /\ DistinctTargets =>
        \E g \in {GetFileID(DiskPre, ret.in)} :
            g.err = "nil" =>
                /\ Fits(g.id.BinSize)
                /\ disk[ret.out].b =
                       SubSeq(ret.inPre.b, 1, I64(g.id.BinSize)) \o ret.z
                           \o makeIDBytes(makeID(buildName, g.id.BinSize, U64(Len(ret.z))))
                /\ \E u \in {UnStuff(disk, ret.out)} :
                       u.err = "nil" /\ List(u.fs) = Targets

\* The identifier of the repository's test: 'stuffbin', 512, 338.
mockID == makeID(buildName, U64(512), U64(338))

C7_GetFileIDNoID ==
    ret.op = "GetFileID" /\ ret.inPre.ex =>
        /\ ret.err # "panic"
        /\ NoIdentifier(ret.inPre) => ret.err = "ErrNoID"
        /\ ret.err = "nil" =>
              /\ Len(ret.inPre.b) >= lenID
              /\ SubSeq(LastID(ret.inPre.b), 1, 8) = buildName
              /\ ret.id.Name = buildName

\* GetFileID returned ErrNoID for a file of 24 bytes or more whose tag
\* differs from 'stuffbin' in its last byte only.
C7_Witness ==
    /\ ret.op = "GetFileID"
    /\ ret.inPre.ex
    /\ Len(ret.inPre.b) >= lenID
    /\ SubSeq(LastID(ret.inPre.b), 1, 8) = otherName
    /\ ret.err = "ErrNoID"

\* C8: GetFileID on the output of a successful Stuff returns the identifier
\* with the tag 'stuffbin' and the two sizes Stuff returned.
C8_FooterRoundTrip ==
    StuffOK => GetFileID(disk, ret.out) = [err |-> "nil", id |-> ReturnedID]

\* C9: UnStuff and GetStuff on an existing file that has no identifier
\* return the error ErrNoID itself and a nil result.
C9_ErrNoIDUnwrapped ==
    ret.op \in {"UnStuff", "GetStuff"} /\ NoIdentifier(ret.inPre) =>
        ret.err = "ErrNoID" /\ ret.nil

\* UnStuff returned ErrNoID for a file that holds an archive and is cut one
\* byte short of its identifier.
C9_Witness ==
    /\ ret.op = "UnStuff"
    /\ ret.inPre.ex
    /\ Len(ret.inPre.b) = MaxBody + lenID - 1
    /\ ret.err = "ErrNoID"
    /\ ret.nil

\* C10: Add of a file whose normalized path is a key of the FileSystem
\* fails with 'already exists' and changes nothing; any other Add inserts
\* the file under its normalized path and adds its size to Size().
C10_AddExisting ==
    ret.op = "Add" =>
        \E k \in {cleanPath(<<>>, ret.path)} :
            IF k \in DOMAIN ret.fsPre.files
            THEN ret.err = "exists" /\ fs = ret.fsPre
            ELSE /\ ret.err = "nil"
                 /\ fs.files = MapPut(ret.fsPre.files, k, NewFile(ret.path, ret.b))
                 /\ Size(fs) = Size(ret.fsPre) + Len(ret.b)

\* The sum of the sizes of the entries stored under the keys ks of m.
RECURSIVE SumSizes(_, _)
SumSizes(m, ks) ==
    IF ks = {} THEN 0
    ELSE The({m.files[k].size + SumSizes(m, ks \ {k}) : k \in {CHOOSE x \in ks : TRUE}})

\* C11: in every state of a FileSystem Size() is the sum of the sizes of
\* the entries stored, and Len() is the number of paths of List().
C11_SizeIsSum ==
    /\ Size(fs) = SumSizes(fs, DOMAIN fs.files)
    /\ FSLen(fs) = Cardinality(List(fs))

\* C12: after Merge every path of src is in dest with the content it has in
\* src, every path that was only in dest keeps its content, and the paths
\* of dest are its previous paths and those of src.
C12_MergeOverwrites ==
    ret.op = "Merge" =>
        /\ \A p \in List(ret.src) :
               \E g \in {Get(fs, p)} : g.err = "nil" /\ g.f.b = ret.src.files[p].b
        /\ \A p \in List(ret.fsPre) \ List(ret.src) :
               p \in List(fs) /\ fs.files[p].b = ret.fsPre.files[p].b
        /\ List(fs) = List(ret.fsPre) \cup List(ret.src)

\* The content a Get, Open or Read returned.
Returned == IF ret.op = "Read" THEN ret.b ELSE ret.f.b

Lookups == {"Get", "Open", "Read"}

\* The spellings 'a', '/a' and './a' of the path /a.
SpellingsOfA == {<<"a">>, <<"/", "a">>, <<".", "/", "a">>}

KeyA == <<"/", "a">>

\* C13: Get, Open and Read return the content of the entry stored under
\* the normalized path, so that 'a', '/a' and './a' all address the entry
\* /a; they return ErrNotExist and nil when there is no such entry, and
\* they leave the FileSystem as it was.
C13_GetNormalized ==
    ret.op \in Lookups =>
        /\ fs = ret.fsPre
        /\ \E k \in {cleanPath(<<"/">>, ret.path)} :
               IF k \in DOMAIN fs.files
               THEN ret.err = "nil" /\ ~ret.nil /\ Returned = fs.files[k].b
               ELSE ret.err = "notexist" /\ ret.nil
        /\ ret.path \in SpellingsOfA =>
               IF KeyA \in DOMAIN fs.files
               THEN ret.err = "nil" /\ Returned = fs.files[KeyA].b
               ELSE ret.err = "notexist"

\* Read returned the content of the entry /a for the spelling './a'.
C13_Witness ==
    /\ ret.op = "Read"
    /\ ret.path = <<".", "/", "a">>
    /\ KeyA \in DOMAIN fs.files
    /\ ret.err = "nil"
    /\ ret.b = fs.files[KeyA].b

\* The segments of a key after its leading separator.
Segments(k) == Split(Drop(k, 1), "/")

\* C15: every key of the FileSystem begins with '/', holds no backslash,
\* and has no empty, '.' or '..' segment.
C15_KeysNormalized ==
    \A k \in List(fs) :
        /\ k # <<>> /\ k[1] = "/"
        /\ \A i \in DOMAIN k : k[i] # "\\"
        /\ \A i \in DOMAIN Segments(k) : Segments(k)[i] \notin {<<>>, Dot, DotDot}

\* C16: Delete of a path whose normalized form is a key removes that entry
\* and no other (a Get of the path then fails, Len() is one less); any
\* other Delete returns ErrNotExist and changes nothing.
C16_DeleteNormalized ==
    ret.op = "Delete" =>
        /\ \E k \in {cleanPath(<<"/">>, ret.path)} :
               IF k \in DOMAIN ret.fsPre.files
               THEN /\ ret.err = "nil"
                    /\ Get(fs, ret.path).err = "notexist"
                    /\ FSLen(fs) = FSLen(ret.fsPre) - 1
                    /\ \A p \in DOMAIN ret.fsPre.files \ {k} :
                           p \in DOMAIN fs.files /\ fs.files[p] = ret.fsPre.files[p]
               ELSE ret.err = "notexist" /\ fs = ret.fsPre
        /\ ret.path \in SpellingsOfA /\ KeyA \in DOMAIN ret.fsPre.files =>
               ret.err = "nil" /\ KeyA \notin DOMAIN fs.files

\* Delete of './a' removed the entry /a and left another entry.
C16_Witness ==
    /\ ret.op = "Delete"
    /\ ret.path = <<".", "/", "a">>
    /\ KeyA \in DOMAIN ret.fsPre.files
    /\ ret.err = "nil"
    /\ FSLen(fs) = 1

\* The content of every entry of the FileSystem m, read through heap.
Stored(m, heap) == [k \in DOMAIN m.files |-> heap[m.files[k].buf]]

BufsOf(m) == {m.files[k].buf : k \in DOMAIN m.files}

\* C14: no slice or buffer a caller holds is the buffer of an entry, so
\* that overwriting one leaves the content of every entry of both
\* FileSystems as it was; and no entry of dest has the buffer of an entry
\* of src.
C14_DefensiveCopies ==
    /\ fs.held \cap (BufsOf(fs.dest) \cup BufsOf(fs.src)) = {}
    /\ BufsOf(fs.dest) \cap BufsOf(fs.src) = {}
    /\ ret.op = "Mutate" =>
           /\ Stored(fs.dest, fs.heap) = Stored(ret.fsPre.dest, ret.fsPre.heap)
           /\ Stored(fs.src, fs.heap) = Stored(ret.fsPre.src, ret.fsPre.heap)

\* After an Add to dest and a Get of the entry, the caller overwrote the
\* buffer of the File that Get returned (the third buffer made).
C14_Witness ==
    /\ ret.op = "Mutate"
    /\ ret.orig = 3
    /\ Len(fs.heap) = 3
    /\ BufsOf(fs.dest) = {2}
    /\ fs.heap # ret.fsPre.heap

\* The pieces of the only spec of a walkPaths call of one spec.
OneSpec == ret.op = "walkPaths" /\ Len(ret.specs) = 1

SpecChunks == Split(ret.specs[1], ":")

\* The files of the host below the directory src, each as its path
\* relative to src.
FilesBelow(src) ==
    The({The({[k \in 1..Len(under) |-> Drop(under[k].path, Len(pre))] :
              under \in {SelectSeq(HostFiles, LAMBDA f : HasPrefix(f.path, pre))}}) :
         pre \in {DirPrefix(Abs(src))}})

\* C17: for a directory spec 'src:alias' the resolver emits, for every file
\* at relative path r below src and for nothing else, the virtual path
\* normalize(root/alias/r); 'd:/v' with d/s/x gives /v/s/x.
C17_AliasDirectory ==
    OneSpec /\ Len(SpecChunks) = 2 /\ HostStat(SpecChunks[1]) = "dir" =>
        \E below \in {FilesBelow(SpecChunks[1])} :
            /\ ret.err = "nil"
            /\ Len(ret.items) = Len(below)
            /\ \A k \in DOMAIN below :
                  /\ HostStat(ret.items[k].src) = "file"
                  /\ Abs(ret.items[k].src) = Abs(SpecChunks[1] \o <<"/">> \o below[k])
                  /\ ret.items[k].target =
                        Clean(<<"/">> \o ret.root \o <<"/">> \o SpecChunks[2]
                                  \o <<"/">> \o below[k])

\* The root path as cleanPath takes it: "/" for an empty one.
RootOrSlash == IF ret.root = <<>> THEN <<"/">> ELSE ret.root

\* C18: for a spec of a single file the virtual path is the normalized
\* alias, whatever the root, when there is an alias, and otherwise the
\* normalized source path joined to the root; root '/r/' with 'd/a' gives
\* /r/d/a and 'd/a:/v/a' gives /v/a.
C18_SingleFile ==
    OneSpec /\ Len(SpecChunks) <= 2 /\ HostStat(SpecChunks[1]) = "file" =>
        /\ ret.err = "nil"
        /\ Len(ret.items) = 1
        /\ Abs(ret.items[1].src) = Abs(SpecChunks[1])
        /\ ret.items[1].target =
              IF Len(SpecChunks) = 2 THEN Clean(<<"/">> \o SpecChunks[2])
              ELSE Clean(RootOrSlash \o <<"/">> \o Clean(<<"/">> \o SpecChunks[1]))
        /\ ret.root = <<"/", "r", "/">> /\ ret.specs[1] = <<"d", "/", "a">> =>
              ret.items[1].target = <<"/", "r", "/", "d", "/", "a">>
        /\ ret.specs[1] = <<"d", "/", "a", ":", "/", "v", "/", "a">> =>
              ret.items[1].target = <<"/", "v", "/", "a">>

\* walkPaths resolved 'd/a:/v/a' under the root '/r/' to /v/a.
C18_Witness ==
    /\ OneSpec
    /\ ret.root = <<"/", "r", "/">>
    /\ ret.specs[1] = <<"d", "/", "a", ":", "/", "v", "/", "a">>
    /\ ret.err = "nil"
    /\ ret.items[1].target = <<"/", "v", "/", "a">>

-----------------------------------------------------------------------------
(* Glob: the patterns as the documentation of filepath.Match reads them.   *)

NoChar == [ok |-> FALSE, c |-> "", rest |-> <<>>]

\* One character of a class: not '-' or ']', and a backslash quotes the
\* character after it.
ClassChar(p) ==
    IF p = <<>> \/ p[1] \in {"-", "]"} THEN NoChar
    ELSE IF p[1] = "\\"
         THEN IF Len(p) < 2 THEN NoChar ELSE [ok |-> TRUE, c |-> p[2], rest |-> Drop(p, 2)]
    ELSE [ok |-> TRUE, c |-> p[1], rest |-> Drop(p, 1)]

NoClass == [ok |-> FALSE, ranges |-> {}, rest |-> <<>>]

\* The ranges lo-hi of a class, up to the ']' that closes it; a class has
\* at least one range.
RECURSIVE ClassRanges(_, _)
ClassRanges(p, ranges) ==
    IF p = <<>> THEN NoClass
    ELSE IF p[1] = "]" /\ ranges # {} THEN [ok |-> TRUE, ranges |-> ranges, rest |-> Drop(p, 1)]
    ELSE The({
        IF ~lo.ok THEN NoClass
        ELSE IF lo.rest # <<>> /\ lo.rest[1] = "-"
             THEN The({IF ~hi.ok THEN NoClass
                       ELSE ClassRanges(hi.rest, ranges \cup {<<Ord(lo.c), Ord(hi.c)>>}) :
                       hi \in {ClassChar(Drop(lo.rest, 1))}})
        ELSE ClassRanges(lo.rest, ranges \cup {<<Ord(lo.c), Ord(lo.c)>>}) :
        lo \in {ClassChar(p)}})

NoTerms == [ok |-> FALSE, terms |-> <<>>]

\* The terms of a pattern: '*', '?', a class, or one character.
RECURSIVE Terms(_)
Terms(p) ==
    IF p = <<>> THEN [ok |-> TRUE, terms |-> <<>>]
    ELSE IF p[1] = "*"
    THEN The({IF ~t.ok THEN NoTerms ELSE [ok |-> TRUE, terms |-> <<[t |-> "star"]>> \o t.terms] :
              t \in {Terms(Drop(p, 1))}})
    ELSE IF p[1] = "?"
    THEN The({IF ~t.ok THEN NoTerms ELSE [ok |-> TRUE, terms |-> <<[t |-> "any"]>> \o t.terms] :
              t \in {Terms(Drop(p, 1))}})
    ELSE IF p[1] = "["
    THEN The({The({
              IF ~cl.ok THEN NoTerms
              ELSE The({IF ~t.ok THEN NoTerms
                        ELSE [ok |-> TRUE,
                              terms |-> <<[t |-> "class", neg |-> neg, ranges |-> cl.ranges]>>
                                        \o t.terms] :
                        t \in {Terms(cl.rest)}}) :
              cl \in {ClassRanges(IF neg THEN Drop(p, 2) ELSE Drop(p, 1), {})}}) :
         neg \in {Len(p) > 1 /\ p[2] = "^"}})
    ELSE IF p[1] = "\\" /\ Len(p) < 2 THEN NoTerms
    ELSE The({The({IF ~t.ok THEN NoTerms
                   ELSE [ok |-> TRUE, terms |-> <<[t |-> "char", c |-> q[1]]>> \o t.terms] :
                   t \in {Terms(Drop(q, 1))}}) :
              q \in {IF p[1] = "\\" THEN Drop(p, 1) ELSE p}})

\* The pattern is well-formed.
WellFormed(p) == Terms(p).ok

\* The terms from the i-th on match name from its j-th character on: '*'
\* stands for any run of characters other than '/', '?' for one character
\* other than '/', a class for one character in (or not in) its ranges.
RECURSIVE TermsMatch(_, _, _, _)
TermsMatch(terms, i, name, j) ==
    IF i > Len(terms) THEN j > Len(name)
    ELSE IF terms[i].t = "star"
    THEN \E k \in j..(Len(name) + 1) :
            /\ \A l \in j..(k - 1) : name[l] # "/"
            /\ TermsMatch(terms, i + 1, name, k)
    ELSE /\ j <= Len(name)
         /\ CASE terms[i].t = "any" -> name[j] # "/"
              [] terms[i].t = "char" -> name[j] = terms[i].c
              [] terms[i].t = "class" ->
                    (\E r \in terms[i].ranges : r[1] <= Ord(name[j]) /\ Ord(name[j]) <= r[2])
                        # terms[i].neg
         /\ TermsMatch(terms, i + 1, name, j + 1)

\* name matches the pattern.
Matches(p, name) ==
    \E t \in {Terms(p)} : t.ok /\ TermsMatch(t.terms, 1, name, 1)

MockExe == <<"/", "d", "/", "a", ".", "x">>
MockGo == <<"/", "d", "/", "a", ".", "b">>
StarExe == <<"/", "d", "/", "*", ".", "x">>

\* C19: Glob(pattern) returns exactly the paths of List() that match the
\* pattern, each once, with '*' and '?' never standing for a '/'; it
\* returns an empty result and no error when no path matches; the only
\* error is ErrBadPattern, with a nil result, and only for a pattern that
\* is not well-formed; with exactly /d/a.x and /d/a.b stored (as mock.exe
\* and mock.go under /mock), Glob("/d/*.x") returns exactly [/d/a.x].
C19_GlobMatches ==
    ret.op = "Glob" =>
        /\ ret.err \in {"nil", BadPattern}
        /\ ret.err = "nil" =>
            /\ {ret.matches[i] : i \in DOMAIN ret.matches}
                    = {p \in List(fs) : Matches(ret.pattern, p)}
            /\ \A i, j \in DOMAIN ret.matches : ret.matches[i] = ret.matches[j] => i = j
        /\ ret.err # "nil" => ~WellFormed(ret.pattern) /\ ret.nil /\ ret.matches = <<>>
        /\ (ret.pattern = StarExe /\ List(fs) = {MockExe, MockGo}) =>
                ret.err = "nil" /\ ret.matches = <<MockExe>>

\* C19 witness: with /d/a.x, /d/a.b and /d/a.x.s stored, Glob("/d/*.x")
\* returned /d/a.x alone.
C19_Witness ==
    /\ ret.op = "Glob"
    /\ ret.pattern = StarExe
    /\ Cardinality(List(fs)) = 3
    /\ ret.err = "nil"
    /\ ret.matches = <<MockExe>>

-----------------------------------------------------------------------------
(* strip                                                                   *)

\* The step is a call of strip.
StripStep == ret'.op = "Strip" /\ steps' = steps + 1

\* The step is a call of strip on the file that the call before it, a
\* successful Stuff of a never-stuffed binary, wrote.
StripOfStuffed == StuffOK /\ ret.inPre.b \in Binaries /\ StripStep /\ ret'.in = ret.out

\* C20: strip on the output of Stuff(B, ...) succeeds and leaves in its
\* output file exactly the bytes of B, whatever that file held before;
\* strip on a file without an identifier fails with the ErrNoID text and
\* its output file is neither created nor modified.
C20_StripInverse ==
    [][/\ StripOfStuffed =>
            /\ ret'.err = "nil"
            /\ disk'[ret'.out] = FileOf(ret.inPre.b)
       /\ (StripStep /\ GetFileID(disk, ret'.in).err = "ErrNoID") =>
            /\ ret'.err = "Errorf(ErrNoID)"
            /\ disk' = disk]_vars

-----------------------------------------------------------------------------
(* File handles                                                            *)

\* The number of events e of ev on the handle of function fn on name.
CountEv(ev, e, fn, name) ==
    Cardinality({i \in DOMAIN ev : ev[i].e = e /\ ev[i].fn = fn /\ ev[i].name = name})

\* The handles that ev leaves open: opened, never closed, and the process
\* still running.
Leaked(ev) ==
    IF \E i \in DOMAIN ev : ev[i].e = "exit" THEN {}
    ELSE { <<ev[i].fn, ev[i].name>> : i \in
              {j \in DOMAIN ev : /\ ev[j].e = "open"
                                 /\ CountEv(ev, "close", ev[j].fn, ev[j].name) = 0} }

\* C21: when an operation returns, with or without an error, every file
\* handle that it or a function it called has opened is closed (none of
\* the operations returns a handle to its caller).
C21_HandlesClosed ==
    ret.op \in {"Stuff", "GetStuff", "NewLocalFS", "strip", "unstuff"} => Leaked(ret.ev) = {}

-----------------------------------------------------------------------------
(* The resolver's errors                                                   *)

\* The error a spec fails with by itself: more than one ':', or a source
\* that is not on the host.
SpecError(fp) ==
    IF Cardinality({i \in DOMAIN fp : fp[i] = ":"}) > 1 THEN "invalid"
    ELSE IF HostStat(Split(fp, ":")[1]) = "notexist" THEN "notexist"
    ELSE "nil"

\* The first spec of the call that fails by itself, 0 when there is none.
FirstBad ==
    IF \A i \in DOMAIN ret.specs : SpecError(ret.specs[i]) = "nil" THEN 0
    ELSE CHOOSE i \in DOMAIN ret.specs :
            /\ SpecError(ret.specs[i]) # "nil"
            /\ \A j \in 1..(i - 1) : SpecError(ret.specs[j]) = "nil"

\* The callbacks of the specs before the first one that fails.
ItemsBefore ==
    walkPaths(ret.root, IF FirstBad = 0 THEN ret.specs
                        ELSE SubSeq(ret.specs, 1, FirstBad - 1)).items

\* C22: the resolver returns the error of the first spec that fails (the
\* invalid-format error for more than one ':', the stat error as it is)
\* after the callbacks of the specs before it and no other; the error of
\* a callback is returned as it is and that callback is the last; and
\* NewLocalFS and zipFiles return nil with the error.
C22_AbortAtFirstFailure ==
    /\ ret.op = "walkPaths" =>
          /\ ret.items = ItemsBefore
          /\ ret.err = IF FirstBad = 0 THEN "nil" ELSE SpecError(ret.specs[FirstBad])
    /\ ret.op = "walkPathsFailing" =>
          IF Len(ItemsBefore) >= ret.base
          THEN ret.err = "callback" /\ ret.items = SubSeq(ItemsBefore, 1, ret.base)
          ELSE /\ ret.items = ItemsBefore
               /\ ret.err = IF FirstBad = 0 THEN "nil" ELSE SpecError(ret.specs[FirstBad])
    /\ ret.op \in {"NewLocalFS", "zipFiles"} =>
          /\ FirstBad # 0 => ret.err # "nil"
          /\ ret.err # "nil" => ret.nil /\ ret.z = <<>> /\ fs = NewFS
          /\ (ret.err \in {"invalid", "notexist"}) => FirstBad # 0

\* C22 witness: of the specs d/a, b:v:x, b the first was resolved, the
\* second gave the invalid-format error, and no callback was made for b.
C22_Witness ==
    /\ ret.op = "walkPaths"
    /\ ret.specs = <<<<"d", "/", "a">>, <<"b", ":", "v", ":", "x">>, <<"b">>>>
    /\ ret.err = "invalid"
    /\ Len(ret.items) = 1
    /\ ret.items[1].src = <<"d", "/", "a">>

-----------------------------------------------------------------------------
(* Concurrent readers                                                      *)

\* The step is a call of goroutine t.
Moved(t) == ret'[t].n # ret[t].n

\* The File objects that the files map holds.
StoredObjs(st) == {st.files[k] : k \in DOMAIN st.files}

\* The bytes of the File object o.
BytesOf(st, o) == st.heap[st.objs[o].buf]

\* The object o, its reader and its bytes are the same after the step.
SameObject(o) == fs'.objs[o] = fs.objs[o] /\ BytesOf(fs', o) = BytesOf(fs, o)

\* The result of the call of t is the one the call gives when t runs alone:
\* it follows from the entries of the FileSystem and, for a method of a
\* File, from the position t left its File at.
AloneResult(t) ==
    \E c \in {ret'[t]} :
    \E k \in {IF c.op \in {"Get", "Open", "Read"} THEN cleanPath(<<"/">>, c.arg) ELSE <<>>} :
        /\ c.op \in {"Get", "Open"} =>
              IF k \in DOMAIN fs.files
              THEN /\ c.err = "nil"
                   /\ fs'.objs[c.f].path = fs.objs[fs.files[k]].path
                   /\ fs'.objs[c.f].pos = 0
                   /\ BytesOf(fs', c.f) = BytesOf(fs, fs.files[k])
              ELSE c.err = "notexist" /\ c.f = ret[t].f
        /\ c.op = "Read" =>
              IF k \in DOMAIN fs.files
              THEN c.err = "nil" /\ c.res = BytesOf(fs, fs.files[k])
              ELSE c.err = "notexist"
        /\ c.op = "List" => {c.res[i] : i \in DOMAIN c.res} = DOMAIN fs.files
        /\ c.op = "Len" => c.res = <<Cardinality(DOMAIN fs.files)>>
        /\ c.op = "Size" => c.res = <<fs.size>>
        /\ c.op = "Glob" =>
              IF WellFormed(c.arg)
              THEN /\ c.err = "nil"
                   /\ {c.res[i] : i \in DOMAIN c.res}
                         = {p \in DOMAIN fs.files : Matches(c.arg, p)}
              ELSE c.err = BadPattern
        /\ c.op = "File.Read" =>
              \E pos \in {fs.objs[c.f].pos} : \E b \in {BytesOf(fs, c.f)} :
                  /\ c.res = SubSeq(b, pos + 1, Min(pos + c.arg[1], Len(b)))
                  /\ c.err = IF pos >= Len(b) THEN "EOF" ELSE "nil"
                  /\ fs'.objs[c.f].pos = pos + Len(c.res)
        /\ c.op = "File.Seek" =>
              \E to \in {IF c.arg[2] = 0 THEN c.arg[1]
                         ELSE Len(BytesOf(fs, c.f)) + c.arg[1]} :
                  IF to < 0 THEN c.err # "nil" /\ SameObject(c.f)
                  ELSE c.err = "nil" /\ c.res = <<to>> /\ fs'.objs[c.f].pos = to
        /\ c.op = "File.Close" => c.err = "nil" /\ fs'.objs[c.f].pos = 0

\* C23: in every interleaving of calls of Get, Open, Read, List, Len, Size
\* and Glob and of Read, Seek and Close on the Files they returned, the
\* entries of the FileSystem, their bytes and Size() stay as they are; a
\* call of one goroutine leaves the File every other goroutine keeps, its
\* bytes and its read position as they are; every call returns what it
\* returns when its goroutine runs alone; and the Files that goroutines
\* keep are different objects with different buffers, none of them an
\* object or a buffer of the FileSystem.
C23_ConcurrentReads ==
    [][/\ fs'.files = fs.files
       /\ fs'.size = fs.size
       /\ \A o \in StoredObjs(fs) : SameObject(o)
       /\ \A t \in Threads : (~Moved(t) /\ ret[t].f # 0) => SameObject(ret[t].f)
       /\ \A t \in Threads : Moved(t) => AloneResult(t)
       /\ \A t \in Threads : ret'[t].f # 0 =>
             /\ ret'[t].f \notin StoredObjs(fs')
             /\ \A o \in StoredObjs(fs') : fs'.objs[ret'[t].f].buf # fs'.objs[o].buf
             /\ \A u \in Threads \ {t} : ret'[u].f # 0 =>
                   /\ ret'[u].f # ret'[t].f
                   /\ fs'.objs[ret'[u].f].buf # fs'.objs[ret'[t].f].buf]_vars

\* C23 witness: both goroutines got /a, and after one of them read its
\* first byte the File of the other is still at its start.
C23_Witness ==
    /\ DOMAIN ret = Threads
    /\ ret[1].op = "File.Read"
    /\ ret[1].res = <<1>>
    /\ ret[2].op = "Get"
    /\ ret[2].f # 0
    /\ fs.objs[ret[2].f].path = <<"/", "a">>
    /\ fs.objs[ret[1].f].path = <<"/", "a">>
    /\ fs.objs[ret[1].f].pos = 1
    /\ fs.objs[ret[2].f].pos = 0

-----------------------------------------------------------------------------
(* UnStuff after Stuff                                                     *)

\* C24: after a Stuff that returned no error, UnStuff of the output file
\* returns no error, whatever the list of specs was.
C24_UnStuffAfterStuff ==
    (ret.op = "Stuff" /\ ret.err = "nil") => UnStuff(disk, ret.out).err = "nil"

-----------------------------------------------------------------------------
(* Directory specs without alias                                           *)

\* The root path, normalized and with its leading '/', as a prefix.
RootPrefix == DirPrefix(Clean(<<"/">> \o ret.root))

\* C25: every file that a directory spec without alias reaches gets the
\* virtual path that the single-file spec of that file gets under the same
\* root path, and this path is normalized, begins with '/', and lies
\* under the root path.
C25_DirLikeSingleFile ==
    OneSpec /\ Len(SpecChunks) = 1 /\ HostStat(SpecChunks[1]) = "dir" /\ ret.err = "nil" =>
        \A k \in DOMAIN ret.items :
            \E t \in {ret.items[k].target} :
                /\ t = walkPaths(ret.root, <<ret.items[k].src>>).items[1].target
                /\ t = Clean(t)
                /\ t # <<>> /\ t[1] = "/"
                /\ HasPrefix(t, RootPrefix)

-----------------------------------------------------------------------------
(* Identifiers whose sizes do not fit the file                             *)

\* C26: GetStuff and UnStuff on a file whose last lenID bytes carry the
\* 'stuffbin' tag return without a panic, whatever the two sizes of the
\* identifier are, and when GetStuff returns no error its bytes are the
\* ZipSize bytes of the file that start at offset BinSize.
C26_NoPanicOnSizes ==
    ret.op \in {"GetStuff", "UnStuff"} /\ ret.inPre.ex /\ ~NoIdentifier(ret.inPre) =>
        /\ ret.err # "panic"
        /\ (ret.op = "GetStuff" /\ ret.err = "nil") =>
              \E id \in {decodeID(LastID(ret.inPre.b)).id} :
                  IF id.ZipSize = U64Zero THEN ret.b = <<>>
                  ELSE /\ Fits(id.BinSize) /\ Fits(id.ZipSize)
                       /\ I64(id.BinSize) + I64(id.ZipSize) <= Len(ret.inPre.b)
                       /\ ret.b = SubSeq(ret.inPre.b, I64(id.BinSize) + 1,
                                         I64(id.BinSize) + I64(id.ZipSize))

-----------------------------------------------------------------------------
(* List, Get and Path                                                      *)

\* C27: every path p of List() is normalized (normalizing it again gives
\* p), Get(p) succeeds, and Path() of the File it returns is p.
C27_ListGetPath ==
    \A p \in List(fs) :
        /\ cleanPath(<<"/">>, p) = p
        /\ Get(fs, p).err = "nil"
        /\ Path(Get(fs, p).f) = p

-----------------------------------------------------------------------------
(* The template helpers                                                    *)

\* C28: ParseTemplates and ParseTemplatesGlob return without a panic;
\* ParseTemplates with no paths returns the error 'no files named in call
\* to ParseTemplates', and ParseTemplatesGlob with a pattern that matches
\* no path of the FileSystem returns an error; both with a nil template.
C28_TemplatesNoPanic ==
    /\ ret.op \in {"ParseTemplates", "ParseTemplatesGlob"} => ret.err # "panic"
    /\ (ret.op = "ParseTemplates" /\ ret.specs = <<>>) =>
          ret.err = "Errorf(no files named)" /\ ret.nil
    /\ (ret.op = "ParseTemplatesGlob"
            /\ \A p \in List(fs) : ~Matches(ret.pattern, p)) =>
          ret.err \notin {"nil", "panic"} /\ ret.nil

====
